---------------------------- MODULE Spec2Model ----------------------------
(***************************************************************************)
(* A model of rulesify's format-conversion layer: the rule-identity        *)
(* resolver (src/utils/rule_id.rs), the four converters                    *)
(* (src/converters/*.rs), the merge engine (cli/commands/deploy.rs) and    *)
(* the sync reconciler (cli/commands/sync.rs) over the rule store          *)
(* (src/store/file_store.rs).                                              *)
(*                                                                         *)
(* A Rust String is modelled as a sequence of one-character strings, so    *)
(* that every text operation of the source (lines, trim, starts_with,      *)
(* split, join, the identity-marker regex) is computed character by        *)
(* character.                                                              *)
(***************************************************************************)
EXTENDS Naturals, Sequences, FiniteSets, TLC

VARIABLES pc, call, text, result, store

vars == <<pc, call, text, result, store>>

\* The rules directory: a function from the ids of the files in it to
\* their contents; it is empty where no file is read or written.
EmptyStore == [id \in {} |-> <<>>]

(***************************************************************************)
(* Option<T> and Result<T>                                                 *)
(***************************************************************************)
None == [some |-> FALSE]

Some(v) == [some |-> TRUE, val |-> v]

Ok(v) == [ok |-> TRUE, val |-> v]

Err(kind) == [ok |-> FALSE, err |-> kind]

(***************************************************************************)
(* Characters                                                              *)
(***************************************************************************)
UpperSeq == <<"A", "B", "C", "D", "E", "F", "G", "H", "I", "J", "K", "L", "M", "N", "O", "P", "Q", "R", "S", "T", "U", "V", "W", "X", "Y", "Z">>

LowerSeq == <<"a", "b", "c", "d", "e", "f", "g", "h", "i", "j", "k", "l", "m", "n", "o", "p", "q", "r", "s", "t", "u", "v", "w", "x", "y", "z">>

DigitSeq == <<"0", "1", "2", "3", "4", "5", "6", "7", "8", "9">>

Range(s) == {s[i] : i \in 1..Len(s)}

is_ascii_lowercase(c) == c \in Range(LowerSeq)

is_ascii_uppercase(c) == c \in Range(UpperSeq)

is_ascii_digit(c) == c \in Range(DigitSeq)

\* The letters outside ASCII that the model knows: U+00E9 and U+00C9.
NonAsciiLower == "é"

NonAsciiUpper == "É"

\* char::is_alphanumeric is Unicode-aware.
is_alphanumeric(c) ==
    \/ is_ascii_lowercase(c)
    \/ is_ascii_uppercase(c)
    \/ is_ascii_digit(c)
    \/ c \in {NonAsciiLower, NonAsciiUpper}

\* char::is_whitespace, for the characters of the model.
is_whitespace(c) == c \in {" ", "\n", "\t", "\r"}

\* The number of bytes of a character's UTF-8 encoding.
len_utf8(c) == IF c \in {NonAsciiLower, NonAsciiUpper} THEN 2 ELSE 1

char_to_lowercase(c) ==
    IF is_ascii_uppercase(c)
    THEN LowerSeq[CHOOSE i \in 1..Len(UpperSeq) : UpperSeq[i] = c]
    ELSE IF c = NonAsciiUpper THEN NonAsciiLower ELSE c

(***************************************************************************)
(* Strings (std::str), as sequences of characters                          *)
(***************************************************************************)
\* str::len is the length in bytes.
RECURSIVE str_len(_)
str_len(s) == IF s = <<>> THEN 0 ELSE len_utf8(Head(s)) + str_len(Tail(s))

to_lowercase(s) == [i \in 1..Len(s) |-> char_to_lowercase(s[i])]

\* str::replace for a one-character pattern and replacement.
replace_char(s, from, to) == [i \in 1..Len(s) |-> IF s[i] = from THEN to ELSE s[i]]

starts_with(s, p) == Len(p) <= Len(s) /\ SubSeq(s, 1, Len(p)) = p

ends_with(s, p) == Len(p) <= Len(s) /\ SubSeq(s, Len(s) - Len(p) + 1, Len(s)) = p

\* The positions at which p occurs in s.
Occurrences(s, p) == {i \in 1..(Len(s) + 1 - Len(p)) : SubSeq(s, i, i + Len(p) - 1) = p}

contains(s, p) == p = <<>> \/ Occurrences(s, p) # {}

RECURSIVE trim_start(_)
trim_start(s) ==
    IF s # <<>> /\ is_whitespace(Head(s)) THEN trim_start(Tail(s)) ELSE s

RECURSIVE trim_end(_)
trim_end(s) ==
    IF s # <<>> /\ is_whitespace(s[Len(s)])
    THEN trim_end(SubSeq(s, 1, Len(s) - 1))
    ELSE s

trim(s) == trim_end(trim_start(s))

\* str::split(c): every piece, the empty ones included.
RECURSIVE split(_, _)
split(s, c) ==
    IF \A i \in 1..Len(s) : s[i] # c
    THEN <<s>>
    ELSE LET k == CHOOSE i \in 1..Len(s) : s[i] = c /\ \A j \in 1..(i - 1) : s[j] # c
         IN  <<SubSeq(s, 1, k - 1)>> \o split(SubSeq(s, k + 1, Len(s)), c)

\* [String]::join(sep)
RECURSIVE join(_, _)
join(parts, sep) ==
    IF parts = <<>> THEN <<>>
    ELSE IF Len(parts) = 1 THEN parts[1]
    ELSE parts[1] \o sep \o join(Tail(parts), sep)

strip_cr(l) == IF l # <<>> /\ l[Len(l)] = "\r" THEN SubSeq(l, 1, Len(l) - 1) ELSE l

\* str::lines(): split at "\n", a final empty piece is no line, and a
\* trailing "\r" is dropped from every line.
lines(s) ==
    LET pieces == split(s, "\n")
        kept == IF pieces[Len(pieces)] = <<>>
                THEN SubSeq(pieces, 1, Len(pieces) - 1)
                ELSE pieces
    IN  [i \in 1..Len(kept) |-> strip_cr(kept[i])]

\* str::repeat
repeat(s, n) == [i \in 1..(n * Len(s)) |-> s[((i - 1) % Len(s)) + 1]]

\* The decimal digits of n, as format!("{}", n) writes them.
RECURSIVE format_u64(_)
format_u64(n) ==
    IF n < 10 THEN <<DigitSeq[n + 1]>>
    ELSE format_u64(n \div 10) \o <<DigitSeq[(n % 10) + 1]>>

(***************************************************************************)
(* src/utils/rule_id.rs                                                    *)
(***************************************************************************)
MinRuleIdLen == 2

MaxRuleIdLen == 50

IdChar(c) == is_alphanumeric(c) \/ c = "-"

NonEmpty(part) == part # <<>>

\* A plausible slip: the hyphen-separated parts are joined without the hyphen.
sanitize_rule_id_joined_bare(input) ==
    LET sanitized == SelectSeq(replace_char(replace_char(to_lowercase(input), " ", "-"), "_", "-"), IdChar)
        cleaned == join(SelectSeq(split(sanitized, "-"), NonEmpty), <<>>)
    IN  IF cleaned = <<>> THEN Err("empty")
        ELSE IF str_len(cleaned) < MinRuleIdLen THEN Err("too_short")
        ELSE IF str_len(cleaned) > MaxRuleIdLen THEN Err("too_long")
        ELSE Ok(cleaned)

sanitize_rule_id(input) ==
    LET sanitized == SelectSeq(replace_char(replace_char(to_lowercase(input), " ", "-"), "_", "-"), IdChar)
        cleaned == join(SelectSeq(split(sanitized, "-"), NonEmpty), <<"-">>)
    IN  IF cleaned = <<>> THEN Err("empty")
        ELSE IF str_len(cleaned) < MinRuleIdLen THEN Err("too_short")
        ELSE IF str_len(cleaned) > MaxRuleIdLen THEN Err("too_long")
        ELSE Ok(cleaned)

is_valid_rule_id(s) ==
    /\ ~(str_len(s) < MinRuleIdLen \/ str_len(s) > MaxRuleIdLen)
    /\ ~contains(s, <<"-", "-">>)
    /\ \A i \in 1..Len(s) : is_ascii_lowercase(s[i]) \/ is_ascii_digit(s[i]) \/ s[i] = "-"
    /\ ~starts_with(s, <<"-">>)
    /\ ~ends_with(s, <<"-">>)

\* Path::file_name: the last normal component; none when the path ends in
\* "..", is empty, or is only "/" or ".".
NormalComponent(c) == c # <<>> /\ c # <<".">>

file_name(path) ==
    LET comps == SelectSeq(split(path, "/"), NormalComponent)
    IN  IF comps = <<>> \/ comps[Len(comps)] = <<".", ".">>
        THEN None
        ELSE Some(comps[Len(comps)])

\* Path::file_stem: the file name up to its last ".", or the whole name when
\* it has no "." or only a leading one.
file_stem(path) ==
    LET name == file_name(path)
    IN  IF ~name.some THEN None
        ELSE LET n == name.val
                 dots == {i \in 1..Len(n) : n[i] = "."}
                 k == CHOOSE i \in dots : \A j \in dots : j <= i
             IN  IF dots = {} \/ k = 1 THEN Some(n) ELSE Some(SubSeq(n, 1, k - 1))

extract_rule_id_from_filename(file_path) ==
    LET stem == file_stem(file_path)
    IN  IF ~stem.some THEN Err("invalid_filename") ELSE sanitize_rule_id(stem.val)

MarkerOpen == <<"<", "!", "-", "-", " ", "r", "u", "l", "e", "s", "i", "f", "y", "-", "i", "d", ":">>

MarkerPrefix == MarkerOpen \o <<" ">>

MarkerSuffix == <<" ", "-", "-", ">">>

\* The regex <!-- rulesify-id: ([^>]+) --> matched at position p of s: the
\* class [^>]+ cannot cross a ">", so the match ends at the first ">" after
\* the prefix; that ">" must close " -->" and leave a non-empty group.
FirstGt(s, from) ==
    LET gts == {i \in from..Len(s) : s[i] = ">"}
    IN  IF gts = {} THEN 0 ELSE CHOOSE i \in gts : \A j \in gts : i <= j

MarkerMatchesAt(s, p) ==
    LET from == p + Len(MarkerPrefix)
        q == FirstGt(s, from)
    IN  /\ p + Len(MarkerPrefix) - 1 <= Len(s)
        /\ SubSeq(s, p, from - 1) = MarkerPrefix
        /\ q # 0
        /\ q - Len(MarkerSuffix) >= from
        /\ SubSeq(s, q - Len(MarkerSuffix) + 1, q) = MarkerSuffix

MarkerMatches(s) == {p \in 1..Len(s) : MarkerMatchesAt(s, p)}

\* Regex::captures / Regex::replace act on the leftmost match:
\* [start |-> p, end |-> q, group |-> the text of ([^>]+)].
first_match(s) ==
    LET p == CHOOSE i \in MarkerMatches(s) : \A j \in MarkerMatches(s) : i <= j
        q == FirstGt(s, p + Len(MarkerPrefix))
    IN  [start |-> p, end |-> q,
         group |-> SubSeq(s, p + Len(MarkerPrefix), q - Len(MarkerSuffix))]

marker_comment(rule_id) == MarkerPrefix \o rule_id \o MarkerSuffix

\* A plausible slip: the comment is always prepended, an old one is kept.
embed_rule_id_always_prepend(content, rule_id) ==
    marker_comment(rule_id) \o <<"\n">> \o content

embed_rule_id_in_content(content, rule_id) ==
    IF contains(content, MarkerOpen)
    THEN IF MarkerMatches(content) = {} THEN content
         ELSE LET m == first_match(content)
              IN  SubSeq(content, 1, m.start - 1) \o marker_comment(rule_id)
                      \o SubSeq(content, m.end + 1, Len(content))
    ELSE marker_comment(rule_id) \o <<"\n">> \o content

extract_embedded_rule_id(content) ==
    IF MarkerMatches(content) = {} THEN None
    ELSE LET id == trim(first_match(content).group)
         IN  IF id = <<>> THEN None ELSE Some(id)

ImportedRulePrefix == <<"i", "m", "p", "o", "r", "t", "e", "d", "-", "r", "u", "l", "e", "-">>

\* A plausible slip: the file name is tried before the embedded marker.
determine_rule_id_filename_first(content, file_path, rule_name, now) ==
    LET embedded == extract_embedded_rule_id(content)
        from_file == IF file_path.some THEN extract_rule_id_from_filename(file_path.val) ELSE Err("no_path")
        from_name == IF rule_name.some THEN sanitize_rule_id(rule_name.val) ELSE Err("no_name")
    IN  IF from_file.ok THEN Ok(from_file.val)
        ELSE IF embedded.some /\ is_valid_rule_id(embedded.val) THEN Ok(embedded.val)
        ELSE IF from_name.ok THEN Ok(from_name.val)
        ELSE Ok(ImportedRulePrefix \o format_u64(now))

\* now: SystemTime::now() in seconds since the epoch.
determine_rule_id_with_fallback(content, file_path, rule_name, now) ==
    LET embedded == extract_embedded_rule_id(content)
        from_file == IF file_path.some THEN extract_rule_id_from_filename(file_path.val) ELSE Err("no_path")
        from_name == IF rule_name.some THEN sanitize_rule_id(rule_name.val) ELSE Err("no_name")
    IN  IF embedded.some /\ is_valid_rule_id(embedded.val) THEN Ok(embedded.val)
        ELSE IF from_file.ok THEN Ok(from_file.val)
        ELSE IF from_name.ok THEN Ok(from_name.val)
        ELSE Ok(ImportedRulePrefix \o format_u64(now))

(***************************************************************************)
(* The rule-identity resolver as a state machine: a call is drawn, the     *)
(* function runs, and its result is kept.                                  *)
(***************************************************************************)
MaxInputLen == 3

IdAlphabet == {"a", "B", "1", "-", "_", " ", "!", NonAsciiLower}

RECURSIVE StringsUpTo(_, _)
StringsUpTo(A, n) ==
    IF n = 0 THEN {<<>>}
    ELSE LET S == StringsUpTo(A, n - 1) IN S \cup {Append(s, c) : s \in S, c \in A}

\* Inputs at the length limits: 50 and 51 bytes, with and without a hyphen,
\* and 25 and 26 two-byte letters.
LongInputs ==
    { repeat(<<"x">>, MaxRuleIdLen),
      repeat(<<"x">>, MaxRuleIdLen + 1),
      repeat(<<"x">>, MaxRuleIdLen - 2) \o <<"-", "y">>,
      repeat(<<"x">>, MaxRuleIdLen - 1) \o <<"-", "y">>,
      repeat(<<NonAsciiLower>>, MaxRuleIdLen \div 2),
      repeat(<<NonAsciiLower>>, (MaxRuleIdLen \div 2) + 1) }

SanitizeInputs == StringsUpTo(IdAlphabet, MaxInputLen) \cup LongInputs

IdA == <<"a", "b">>

IdB == <<"c", "-", "d">>

IdC == <<"x", "9">>

ValidIdPool == {IdA, IdB, IdC}

Heading == <<"#", " ", "T">>

NL == <<"\n">>

\* Texts with no marker, one marker (first or later in the text), a marker
\* whose id is not valid, padded, or empty, two markers, and a marker
\* comment written without the space after the colon.
ContentPool ==
    { <<>>,
      Heading,
      marker_comment(IdA) \o NL \o Heading,
      Heading \o NL \o marker_comment(IdB),
      marker_comment(<<"A", "b">>) \o NL \o Heading,
      marker_comment(<<" ", "a", "b", " ">>) \o NL \o Heading,
      MarkerPrefix \o MarkerSuffix \o NL \o Heading,
      marker_comment(<<"A">>) \o NL \o marker_comment(IdA),
      marker_comment(IdC) \o NL \o marker_comment(IdA),
      MarkerOpen \o <<"x">> \o MarkerSuffix \o NL \o Heading }

PathPool ==
    { <<"f", "n", ".", "m", "d">>,
      <<"d", "/", "M", "y", "_", "F", "i", "l", "e", ".", "m", "d", "c">>,
      <<"!", ".", "m", "d">>,
      <<".", ".">>,
      <<".", "x">>,
      <<"a", ".", "b", ".", "c">> }

NamePool ==
    { <<"N", "m">>,
      <<"M", "y", " ", " ", "R", "u", "l", "e">>,
      <<"!">>,
      <<>> }

NowPool == {0, 1700000000}

Optional(S) == {None} \cup {Some(v) : v \in S}

IdCalls ==
    [op : {"sanitize_rule_id"}, input : SanitizeInputs]
    \cup [op : {"extract_rule_id_from_filename"}, file_path : PathPool]
    \cup [op : {"embed_rule_id_in_content"}, content : ContentPool,
          rule_id : ValidIdPool, next_id : ValidIdPool]
    \cup [op : {"determine_rule_id_with_fallback"}, content : ContentPool,
          file_path : Optional(PathPool), rule_name : Optional(NamePool), now : NowPool]

InitId ==
    /\ pc = "ready"
    /\ call \in IdCalls
    /\ text = <<>>
    /\ result = None
    /\ store = EmptyStore

SanitizeRuleId ==
    /\ pc = "ready"
    /\ call.op = "sanitize_rule_id"
    /\ result' = sanitize_rule_id(call.input)
    /\ pc' = "done"
    /\ UNCHANGED <<call, text, store>>

ExtractRuleIdFromFilename ==
    /\ pc = "ready"
    /\ call.op = "extract_rule_id_from_filename"
    /\ result' = extract_rule_id_from_filename(call.file_path)
    /\ pc' = "done"
    /\ UNCHANGED <<call, text, store>>

EmbedRuleId ==
    /\ pc = "ready"
    /\ call.op = "embed_rule_id_in_content"
    /\ text' = embed_rule_id_in_content(call.content, call.rule_id)
    /\ pc' = "embedded"
    /\ UNCHANGED <<call, result, store>>

\* The embedded text is given a new id.
ReEmbedRuleId ==
    /\ pc = "embedded"
    /\ text' = embed_rule_id_in_content(text, call.next_id)
    /\ pc' = "reembedded"
    /\ UNCHANGED <<call, result, store>>

ExtractEmbeddedRuleId ==
    /\ pc \in {"embedded", "reembedded"}
    /\ result' = extract_embedded_rule_id(text)
    /\ pc' = IF pc = "embedded" THEN "extracted" ELSE "reextracted"
    /\ UNCHANGED <<call, text, store>>

DetermineRuleId ==
    /\ pc = "ready"
    /\ call.op = "determine_rule_id_with_fallback"
    /\ result' = determine_rule_id_with_fallback(call.content, call.file_path,
                                                 call.rule_name, call.now)
    /\ pc' = "done"
    /\ UNCHANGED <<call, text, store>>

NextId ==
    \/ SanitizeRuleId
    \/ ExtractRuleIdFromFilename
    \/ EmbedRuleId
    \/ ReEmbedRuleId
    \/ ExtractEmbeddedRuleId
    \/ DetermineRuleId

SpecId == InitId /\ [][NextId]_vars

(***************************************************************************)
(* Properties of the rule-identity resolver                                *)
(***************************************************************************)
\* The id invariant of the data model, stated on characters: lowercase,
\* 2 to 50 characters, only alphanumerics and single hyphens, no hyphen
\* first or last.
IdInvariant(id) ==
    /\ Len(id) >= MinRuleIdLen /\ Len(id) <= MaxRuleIdLen
    /\ \A i \in 1..Len(id) : IdChar(id[i]) /\ char_to_lowercase(id[i]) = id[i]
    /\ ~contains(id, <<"-", "-">>)
    /\ id[1] # "-" /\ id[Len(id)] # "-"

Sanitized == pc = "done" /\ call.op = "sanitize_rule_id"

\* C4: whenever sanitize_rule_id succeeds, its result satisfies the id
\* invariant and is accepted by is_valid_rule_id.
C4_SanitizeOutputIsValid ==
    (Sanitized /\ result.ok) => (IdInvariant(result.val) /\ is_valid_rule_id(result.val))

\* C5: sanitize_rule_id of a valid id succeeds and returns the id unchanged.
C5_ValidIdIsFixedPoint ==
    (Sanitized /\ is_valid_rule_id(call.input)) => result = Ok(call.input)

\* A valid id with a hyphen in it, and one of the greatest length, went
\* through sanitize_rule_id.
C5_Witness ==
    /\ Sanitized
    /\ is_valid_rule_id(call.input)
    /\ contains(call.input, <<"-">>)
    /\ Len(call.input) = MaxRuleIdLen
    /\ result = Ok(call.input)

Determined == pc = "done" /\ call.op = "determine_rule_id_with_fallback"

MarkerId == extract_embedded_rule_id(call.content)

MarkerIdValid == MarkerId.some /\ is_valid_rule_id(MarkerId.val)

StemId ==
    IF call.file_path.some THEN extract_rule_id_from_filename(call.file_path.val)
    ELSE Err("no_path")

NameId == IF call.rule_name.some THEN sanitize_rule_id(call.rule_name.val) ELSE Err("no_name")

\* C6: determine_rule_id_with_fallback never fails and returns the first
\* available of: the valid id of the embedded marker, the sanitized file
\* stem, the sanitized rule name, "imported-rule-{unix_timestamp}".
C6_FallbackOrder ==
    Determined =>
        /\ result.ok
        /\ MarkerIdValid => result.val = MarkerId.val
        /\ (~MarkerIdValid /\ StemId.ok) => result.val = StemId.val
        /\ (~MarkerIdValid /\ ~StemId.ok /\ NameId.ok) => result.val = NameId.val
        /\ (~MarkerIdValid /\ ~StemId.ok /\ ~NameId.ok)
               => result.val = ImportedRulePrefix \o format_u64(call.now)

\* A marker, a file name and a rule name that give three different ids: the
\* marker's id is returned.
C6_Witness ==
    /\ Determined
    /\ MarkerIdValid /\ StemId.ok /\ NameId.ok
    /\ MarkerId.val # StemId.val /\ MarkerId.val # NameId.val /\ StemId.val # NameId.val
    /\ result = Ok(MarkerId.val)

\* C7: after embed_rule_id_in_content(t, i) the text holds exactly one
\* identity marker and extract_embedded_rule_id returns i, for the first
\* embedding and for a re-embedding alike.
C7_EmbedThenExtract ==
    /\ pc = "embedded" =>
           /\ Cardinality(MarkerMatches(text)) = 1
           /\ extract_embedded_rule_id(text) = Some(call.rule_id)
    /\ pc = "reembedded" =>
           /\ Cardinality(MarkerMatches(text)) = 1
           /\ extract_embedded_rule_id(text) = Some(call.next_id)

(***************************************************************************)
(* src/cli/commands/deploy.rs: merge_rules                                 *)
(*                                                                         *)
(* A UniversalRule is a record                                             *)
(*   [id, version, metadata : [name, description, tags, priority],         *)
(*    content : Seq([title, format, value]), references : Seq([path]),     *)
(*    conditions : Seq([type, value]), tool_overrides]                     *)
(* and tool_overrides is a function from tool names to option bags.        *)
(***************************************************************************)
DescriptionSeparator == <<"\n", "\n", "-", "-", "-", "\n", "\n">>

FromPrefix == <<"F", "r", "o", "m", ":", " ">>

SourceNotePrefix == <<"*", "T", "h", "e", " ", "f", "o", "l", "l", "o", "w", "i", "n", "g", " ", "s", "e", "c", "t", "i", "o", "n", "s", " ", "a", "r", "e", " ", "f", "r", "o", "m", " ", "r", "u", "l", "e", ":", " ">>

\* A plausible slip: an unstable sort, which puts a rule before the rules
\* of equal priority that came before it.
insert_before_equal(sorted, r) ==
    LET before == {i \in 1..Len(sorted) : sorted[i].metadata.priority > r.metadata.priority}
        k == Cardinality(before)
    IN  SubSeq(sorted, 1, k) \o <<r>> \o SubSeq(sorted, k + 1, Len(sorted))

\* One step of the stable sort: in a list sorted by descending priority, r
\* goes after every rule whose priority is greater or equal.
insert_by_priority(sorted, r) ==
    LET before == {i \in 1..Len(sorted) : sorted[i].metadata.priority >= r.metadata.priority}
        k == Cardinality(before)
    IN  SubSeq(sorted, 1, k) \o <<r>> \o SubSeq(sorted, k + 1, Len(sorted))

\* sorted_rules.sort_by(|a, b| b.metadata.priority.cmp(&a.metadata.priority))
RECURSIVE sort_by_priority(_)
sort_by_priority(rules) ==
    IF rules = <<>> THEN <<>>
    ELSE insert_by_priority(sort_by_priority(SubSeq(rules, 1, Len(rules) - 1)), rules[Len(rules)])

RECURSIVE present_descriptions(_)
present_descriptions(sorted_rules) ==
    IF sorted_rules = <<>> THEN <<>>
    ELSE (IF Head(sorted_rules).metadata.description.some
          THEN <<Head(sorted_rules).metadata.description.val>>
          ELSE <<>>) \o present_descriptions(Tail(sorted_rules))

merged_description(sorted_rules) ==
    LET descriptions == present_descriptions(sorted_rules)
    IN  IF descriptions = <<>> THEN None ELSE Some(join(descriptions, DescriptionSeparator))

\* A plausible slip: every item is pushed, seen or not.
dedup_by_push_all(items, keys, seen) == items

\* The items whose key was not seen before, in order (HashSet::insert);
\* keys[i] is the key of items[i].
RECURSIVE dedup_by(_, _, _)
dedup_by(items, keys, seen) ==
    IF items = <<>> THEN <<>>
    ELSE IF Head(keys) \in seen THEN dedup_by(Tail(items), Tail(keys), seen)
    ELSE <<Head(items)>> \o dedup_by(Tail(items), Tail(keys), seen \cup {Head(keys)})

RECURSIVE flatten(_)
flatten(seqs) == IF seqs = <<>> THEN <<>> ELSE Head(seqs) \o flatten(Tail(seqs))

merged_tags(sorted_rules) ==
    LET all == flatten([i \in 1..Len(sorted_rules) |-> sorted_rules[i].metadata.tags])
    IN  dedup_by(all, all, {})

source_header(rule) ==
    [title |-> FromPrefix \o rule.metadata.name,
     format |-> "markdown",
     value |-> SourceNotePrefix \o rule.metadata.name \o <<"*">>]

\* A plausible slip: the header is pushed after the rule's sections.
merged_content_header_last(sorted_rules) ==
    flatten([i \in 1..Len(sorted_rules) |->
                sorted_rules[i].content \o <<source_header(sorted_rules[i])>>])

merged_content(sorted_rules) ==
    flatten([i \in 1..Len(sorted_rules) |->
                <<source_header(sorted_rules[i])>> \o sorted_rules[i].content])

merged_references(sorted_rules) ==
    LET all == flatten([i \in 1..Len(sorted_rules) |-> sorted_rules[i].references])
    IN  dedup_by(all, [i \in 1..Len(all) |-> all[i].path], {})

FilePatternKeyPrefix == <<"f", "i", "l", "e", "_", "p", "a", "t", "t", "e", "r", "n", ":">>

RegexKeyPrefix == <<"r", "e", "g", "e", "x", ":">>

condition_key(condition) ==
    IF condition.type = "file_pattern"
    THEN FilePatternKeyPrefix \o condition.value
    ELSE RegexKeyPrefix \o condition.value

merged_conditions(sorted_rules) ==
    LET all == flatten([i \in 1..Len(sorted_rules) |-> sorted_rules[i].conditions])
    IN  dedup_by(all, [i \in 1..Len(all) |-> condition_key(all[i])], {})

merge_rules(rules, new_id) ==
    IF rules = <<>> THEN Err("Cannot merge empty list of rules")
    ELSE IF Len(rules) = 1 THEN Ok([rules[1] EXCEPT !.id = new_id])
    ELSE LET sorted_rules == sort_by_priority(rules)
             highest_priority_rule == sorted_rules[1]
         IN  Ok([id |-> new_id,
                 version |-> highest_priority_rule.version,
                 metadata |-> [name |-> highest_priority_rule.metadata.name,
                               description |-> merged_description(sorted_rules),
                               tags |-> merged_tags(sorted_rules),
                               priority |-> highest_priority_rule.metadata.priority],
                 content |-> merged_content(sorted_rules),
                 references |-> merged_references(sorted_rules),
                 conditions |-> merged_conditions(sorted_rules),
                 tool_overrides |-> highest_priority_rule.tool_overrides])

(***************************************************************************)
(* The merge engine as a state machine: a list of stored rules and a       *)
(* target id are drawn, and merge_rules runs on them.                      *)
(***************************************************************************)
MaxRules == 3

Section(title, value) == [title |-> title, format |-> "markdown", value |-> value]

FilePattern(value) == [type |-> "file_pattern", value |-> value]

Regex(value) == [type |-> "regex", value |-> value]

Reference(path) == [path |-> path]

NoOverrides == [tool \in {} |-> {}]

\* serde_json::Value, for the values the option bags hold.
JString(s) == [t |-> "string", v |-> s]

JBool(b) == [t |-> "bool", v |-> b]

UniversalRule(id, version, name, description, tags, priority, content, references, conditions, tool_overrides) ==
    [id |-> id,
     version |-> version,
     metadata |-> [name |-> name, description |-> description, tags |-> tags, priority |-> priority],
     content |-> content,
     references |-> references,
     conditions |-> conditions,
     tool_overrides |-> tool_overrides]

Tag1 == <<"t", "1">>

Tag2 == <<"t", "2">>

Tag3 == <<"t", "3">>

Section1 == Section(<<"S", "1">>, <<"v", "1">>)

Section2 == Section(<<"S", "2">>, <<"v", "2">>)

Section3 == Section(<<"S", "3">>, <<"v", "\n", "3">>)

Path1 == <<"a", ".", "r", "s">>

Path2 == <<"b", ".", "r", "s">>

Glob1 == <<"*", ".", "t", "s">>

\* Stored rules to merge: priorities with ties (8, 8 and 3, 3), a missing
\* and an empty description, shared tags, references and conditions, and
\* rules with no, one and two sections.
MergeRulePool ==
    { UniversalRule(<<"r", "a">>, <<"1", ".", "0", ".", "0">>, <<"A">>, Some(<<"d", "a">>),
                    <<Tag1, Tag2>>, 8, <<Section1>>, <<Reference(Path1)>>,
                    <<FilePattern(Glob1)>>, [cursor |-> [apply_mode |-> JString("always")]]),
      UniversalRule(<<"r", "b">>, <<"2", ".", "0", ".", "0">>, <<"B">>, None,
                    <<Tag2, Tag3>>, 3, <<>>, <<Reference(Path1), Reference(Path2)>>,
                    <<FilePattern(Glob1), Regex(Glob1)>>, NoOverrides),
      UniversalRule(<<"r", "c">>, <<"0", ".", "1", ".", "0">>, <<"C">>, Some(<<>>),
                    <<>>, 8, <<Section2, Section3>>, <<>>,
                    <<>>, [cursor |-> [apply_mode |-> JString("intelligent")]]),
      UniversalRule(<<"r", "d">>, <<"0", ".", "2", ".", "0">>, <<"D">>, Some(<<"d", "d">>),
                    <<Tag1>>, 6, <<Section1>>, <<Reference(Path2)>>,
                    <<Regex(Glob1)>>, [cursor |-> [auto_apply |-> JBool(TRUE)]]),
      UniversalRule(<<"r", "e">>, <<"0", ".", "3", ".", "0">>, <<"E">>, Some(<<"d", "e">>),
                    <<Tag3, Tag3>>, 3, <<Section2>>, <<Reference(Path2), Reference(Path1)>>,
                    <<Regex(Glob1), FilePattern(Glob1)>>, [goose |-> [x |-> JString("y")]]) }

RECURSIVE SeqsUpTo(_, _)
SeqsUpTo(S, n) ==
    IF n = 0 THEN {<<>>}
    ELSE LET shorter == SeqsUpTo(S, n - 1) IN shorter \cup {Append(q, x) : q \in shorter, x \in S}

NewIdPool == {<<"m", "-", "1">>, <<"r", "a">>}

InitMerge ==
    /\ pc = "ready"
    /\ call \in [op : {"merge_rules"}, rules : SeqsUpTo(MergeRulePool, MaxRules), new_id : NewIdPool]
    /\ text = <<>>
    /\ result = None
    /\ store = EmptyStore

MergeRules ==
    /\ pc = "ready"
    /\ call.op = "merge_rules"
    /\ result' = merge_rules(call.rules, call.new_id)
    /\ pc' = "done"
    /\ UNCHANGED <<call, text, store>>

NextMerge == MergeRules

SpecMerge == InitMerge /\ [][NextMerge]_vars

(***************************************************************************)
(* Properties of the merge engine                                          *)
(***************************************************************************)
Merged == pc = "done" /\ call.op = "merge_rules" /\ Len(call.rules) >= 2

Priority(i) == call.rules[i].metadata.priority

\* The place of input rule i in descending priority order, ties in input
\* order: one more than the number of rules that go before it.
Rank(i) ==
    1 + Cardinality({j \in 1..Len(call.rules) :
                        Priority(j) > Priority(i) \/ (Priority(j) = Priority(i) /\ j < i)})

\* The input rules in descending priority order, ties in input order.
InPriorityOrder ==
    [k \in 1..Len(call.rules) |-> call.rules[CHOOSE i \in 1..Len(call.rules) : Rank(i) = k]]

\* C8: the merged name, priority, version and tool_overrides are those of
\* the earliest input rule of greatest priority, and the merged id is the
\* id the caller supplied.
C8_MetadataFromHighestPriority ==
    Merged =>
        /\ result.ok
        /\ result.val.id = call.new_id
        /\ result.val.metadata.name = InPriorityOrder[1].metadata.name
        /\ result.val.metadata.priority = InPriorityOrder[1].metadata.priority
        /\ result.val.version = InPriorityOrder[1].version
        /\ result.val.tool_overrides = InPriorityOrder[1].tool_overrides

\* Three rules, the first of lower priority and the other two sharing the
\* greatest one: the merged rule is named after the second.
C8_Witness ==
    /\ Merged
    /\ Len(call.rules) = 3
    /\ Priority(1) < Priority(2) /\ Priority(2) = Priority(3)
    /\ call.rules[2].metadata.name # call.rules[3].metadata.name
    /\ call.rules[2].tool_overrides # call.rules[3].tool_overrides
    /\ result.val.metadata.name = call.rules[2].metadata.name
    /\ result.val.id = call.new_id /\ call.new_id # call.rules[2].id

RECURSIVE NonEmptyDescriptions(_)
NonEmptyDescriptions(rules) ==
    IF rules = <<>> THEN <<>>
    ELSE (IF Head(rules).metadata.description.some /\ Head(rules).metadata.description.val # <<>>
          THEN <<Head(rules).metadata.description.val>>
          ELSE <<>>) \o NonEmptyDescriptions(Tail(rules))

\* C9: the merged description is the join, with "\n\n---\n\n", of the
\* non-empty descriptions of the input rules in descending priority order,
\* and it is absent when no rule has a non-empty description.
C9_DescriptionJoinsNonEmpty ==
    Merged =>
        result.val.metadata.description =
            IF NonEmptyDescriptions(InPriorityOrder) = <<>> THEN None
            ELSE Some(join(NonEmptyDescriptions(InPriorityOrder), DescriptionSeparator))

RECURSIVE ExpectedContent(_)
ExpectedContent(rules) ==
    IF rules = <<>> THEN <<>>
    ELSE <<[title |-> FromPrefix \o Head(rules).metadata.name,
            format |-> "markdown",
            value |-> SourceNotePrefix \o Head(rules).metadata.name \o <<"*">>]>>
         \o Head(rules).content \o ExpectedContent(Tail(rules))

RECURSIVE SectionCount(_)
SectionCount(rules) ==
    IF rules = <<>> THEN 0 ELSE Len(Head(rules).content) + SectionCount(Tail(rules))

\* C10: the merged content is, for each input rule in descending priority
\* order, a section titled "From: {name}" followed by the rule's own
\* sections unchanged and in order; it has as many sections as there are
\* rules plus the sections of all rules.
C10_ContentByPriorityWithHeaders ==
    Merged =>
        /\ result.val.content = ExpectedContent(InPriorityOrder)
        /\ Len(result.val.content) = Len(call.rules) + SectionCount(call.rules)

\* Three rules given in an order that is not their priority order, one of
\* them with two sections and one with none.
C10_Witness ==
    /\ Merged
    /\ Len(call.rules) = 3
    /\ Priority(1) < Priority(2) /\ Priority(3) < Priority(1)
    /\ Len(call.rules[2].content) = 2
    /\ Len(call.rules[3].content) = 0
    /\ Len(result.val.content) = 6
    /\ result.val.content[1].title = FromPrefix \o call.rules[2].metadata.name

\* The concatenation of one list per rule, rules in descending priority order.
AllTags == flatten([k \in 1..Len(call.rules) |-> InPriorityOrder[k].metadata.tags])

AllReferences == flatten([k \in 1..Len(call.rules) |-> InPriorityOrder[k].references])

AllConditions == flatten([k \in 1..Len(call.rules) |-> InPriorityOrder[k].conditions])

\* The places of a list of keys where a key occurs for the first time.
FirstSeen(keys) == {i \in 1..Len(keys) : \A j \in 1..(i - 1) : keys[j] # keys[i]}

\* The items at the places where their key occurs for the first time, in order.
FirstOccurrences(items, keys) ==
    [k \in 1..Cardinality(FirstSeen(keys)) |->
        items[CHOOSE i \in FirstSeen(keys) : Cardinality({j \in FirstSeen(keys) : j < i}) = k - 1]]

ReferencePaths == [i \in 1..Len(AllReferences) |-> AllReferences[i].path]

ConditionKinds == [i \in 1..Len(AllConditions) |-> <<AllConditions[i].type, AllConditions[i].value>>]

\* C11: in a merge of two or more rules, the merged tags, references (by
\* path) and conditions (by kind and value) hold every distinct element of
\* the inputs exactly once, in order of first occurrence when the rules are
\* scanned in descending priority order.
C11_UnionInFirstSeenOrder ==
    Merged =>
        /\ result.val.metadata.tags = FirstOccurrences(AllTags, AllTags)
        /\ result.val.references = FirstOccurrences(AllReferences, ReferencePaths)
        /\ result.val.conditions = FirstOccurrences(AllConditions, ConditionKinds)

\* A merge where the second rule goes first, and tags, references and
\* conditions each occur in more than one rule.
C11_Witness ==
    /\ Merged
    /\ Priority(1) < Priority(2)
    /\ Len(result.val.metadata.tags) < Len(AllTags)
    /\ Len(result.val.references) < Len(AllReferences)
    /\ Len(result.val.conditions) < Len(AllConditions)
    /\ Len(result.val.conditions) = 2

(***************************************************************************)
(* src/converters/cline.rs                                                 *)
(***************************************************************************)
ImportedRuleName == <<"I", "m", "p", "o", "r", "t", "e", "d", " ", "R", "u", "l", "e">>

ContentTitle == <<"C", "o", "n", "t", "e", "n", "t">>

DefaultVersion == <<"0", ".", "1", ".", "0">>

DefaultPriority == 5

H1 == <<"#", " ">>

H2 == <<"#", "#", " ">>

Hash == <<"#">>

\* The text the Markdown converters write for a rule: the name as a
\* first-level heading, the description, and every section under a
\* second-level heading.
RECURSIVE markdown_sections(_)
markdown_sections(content) ==
    IF content = <<>> THEN <<>>
    ELSE H2 \o Head(content).title \o <<"\n", "\n">> \o Head(content).value \o <<"\n", "\n">>
         \o markdown_sections(Tail(content))

cline_convert_to_tool_format(rule) ==
    H1 \o rule.metadata.name \o <<"\n", "\n">>
    \o (IF rule.metadata.description.some
        THEN rule.metadata.description.val \o <<"\n", "\n">>
        ELSE <<>>)
    \o markdown_sections(rule.content)

\* The first index after i of a line that is not blank, Len(ls) + 1 if none.
next_non_blank(ls, i) ==
    LET found == {j \in (i + 1)..Len(ls) : trim(ls[j]) # <<>>}
    IN  IF found = {} THEN Len(ls) + 1 ELSE CHOOSE j \in found : \A k \in found : j <= k

\* A section under construction, (title, content_lines), becomes a RuleContent.
close_section(current, format) ==
    [title |-> current.title, format |-> format, value |-> trim(join(current.lines, <<"\n">>))]

ParseStart ==
    [i |-> 1, name |-> ImportedRuleName, description |-> None, sections |-> <<>>, current |-> None]

\* One turn of the while loop of parse_cline_format, at line st.i.
cline_step(ls, st) ==
    LET line == trim(ls[st.i])
    IN  IF starts_with(line, H1)
        THEN LET j == next_non_blank(ls, st.i)
                 is_description == j <= Len(ls) /\ ~starts_with(trim(ls[j]), Hash)
             IN  [st EXCEPT !.name = trim(SubSeq(line, 3, Len(line))),
                            !.description = IF is_description THEN Some(trim(ls[j])) ELSE @,
                            !.i = (IF is_description THEN j ELSE @) + 1]
        ELSE IF starts_with(line, H2)
        THEN [st EXCEPT !.sections = IF st.current.some
                                     THEN Append(@, close_section(st.current.val, "markdown"))
                                     ELSE @,
                        !.current = Some([title |-> trim(SubSeq(line, 4, Len(line))), lines |-> <<>>]),
                        !.i = @ + 1]
        ELSE IF st.current.some
        THEN [st EXCEPT !.current = Some([@.val EXCEPT !.lines = Append(@, line)]),
                        !.i = @ + 1]
        ELSE IF line # <<>> /\ ~starts_with(line, Hash) /\ st.sections = <<>>
        THEN [st EXCEPT !.current = Some([title |-> ContentTitle, lines |-> <<line>>]),
                        !.i = @ + 1]
        ELSE [st EXCEPT !.i = @ + 1]

RECURSIVE cline_loop(_, _)
cline_loop(ls, st) == IF st.i > Len(ls) THEN st ELSE cline_loop(ls, cline_step(ls, st))

\* After the loop: the open section is saved, and a text that gave no
\* section at all becomes one section titled "Content".
finish_parse(content, st, format, keep_empty) ==
    LET last == IF st.current.some THEN <<close_section(st.current.val, format)>> ELSE <<>>
        saved == st.sections
                 \o (IF last # <<>> /\ (keep_empty \/ last[1].value # <<>>) THEN last ELSE <<>>)
        sections == IF saved = <<>> /\ trim(content) # <<>>
                    THEN <<[title |-> ContentTitle, format |-> format, value |-> trim(content)]>>
                    ELSE saved
    IN  [name |-> st.name, description |-> st.description, sections |-> sections]

parse_cline_format(content) ==
    finish_parse(content, cline_loop(lines(content), ParseStart), "markdown", TRUE)

\* The id the Cursor and Cline imports derive from the name: sanitized
\* character by character, hyphens not collapsed, length not checked.
rule_id_from_name(name) ==
    SelectSeq(replace_char(replace_char(to_lowercase(name), " ", "-"), "_", "-"), IdChar)

imported_rule(rule_id, parsed, references, conditions, tool_overrides) ==
    [id |-> rule_id,
     version |-> DefaultVersion,
     metadata |-> [name |-> parsed.name, description |-> parsed.description,
                   tags |-> <<>>, priority |-> DefaultPriority],
     content |-> parsed.sections,
     references |-> references,
     conditions |-> conditions,
     tool_overrides |-> tool_overrides]

cline_convert_from_tool_format(content) ==
    LET parsed == parse_cline_format(content)
    IN  Ok(imported_rule(rule_id_from_name(parsed.name), parsed, <<>>, <<>>, NoOverrides))

(***************************************************************************)
(* src/converters/claude_code.rs                                           *)
(***************************************************************************)
claude_code_convert_to_tool_format(rule) ==
    embed_rule_id_in_content(
        H1 \o rule.metadata.name \o <<"\n", "\n">>
        \o (IF rule.metadata.description.some
            THEN rule.metadata.description.val \o <<"\n", "\n">>
            ELSE <<>>)
        \o markdown_sections(rule.content),
        rule.id)

\* One turn of the while loop of parse_claude_code_format: as for Cline,
\* and lines that start with the marker comment are skipped.
claude_code_step(ls, st) ==
    LET line == trim(ls[st.i])
    IN  IF starts_with(line, H1)
        THEN LET j == next_non_blank(ls, st.i)
                 is_description == j <= Len(ls) /\ ~starts_with(trim(ls[j]), Hash)
             IN  [st EXCEPT !.name = trim(SubSeq(line, 3, Len(line))),
                            !.description = IF is_description THEN Some(trim(ls[j])) ELSE @,
                            !.i = (IF is_description THEN j ELSE @) + 1]
        ELSE IF starts_with(line, H2)
        THEN [st EXCEPT !.sections = IF st.current.some
                                     THEN Append(@, close_section(st.current.val, "markdown"))
                                     ELSE @,
                        !.current = Some([title |-> trim(SubSeq(line, 4, Len(line))), lines |-> <<>>]),
                        !.i = @ + 1]
        ELSE IF st.current.some
        THEN [st EXCEPT !.current = IF starts_with(line, MarkerOpen) THEN @
                                    ELSE Some([@.val EXCEPT !.lines = Append(@, line)]),
                        !.i = @ + 1]
        ELSE IF line # <<>> /\ ~starts_with(line, Hash) /\ ~starts_with(line, MarkerOpen)
                /\ st.sections = <<>>
        THEN [st EXCEPT !.current = Some([title |-> ContentTitle, lines |-> <<line>>]),
                        !.i = @ + 1]
        ELSE [st EXCEPT !.i = @ + 1]

RECURSIVE claude_code_loop(_, _)
claude_code_loop(ls, st) ==
    IF st.i > Len(ls) THEN st ELSE claude_code_loop(ls, claude_code_step(ls, st))

parse_claude_code_format(content) ==
    finish_parse(content, claude_code_loop(lines(content), ParseStart), "markdown", TRUE)

claude_code_convert_from_tool_format(content, now) ==
    LET parsed == parse_claude_code_format(content)
        rule_id == determine_rule_id_with_fallback(content, None, Some(parsed.name), now)
    IN  Ok(imported_rule(rule_id.val, parsed, <<>>, <<>>, NoOverrides))

(***************************************************************************)
(* src/converters/goose.rs                                                 *)
(***************************************************************************)
RECURSIVE goose_sections(_)
goose_sections(content) ==
    IF content = <<>> THEN <<>>
    ELSE Head(content).title \o <<"\n">> \o repeat(<<"-">>, str_len(Head(content).title))
         \o <<"\n">> \o Head(content).value \o <<"\n", "\n">>
         \o goose_sections(Tail(content))

goose_convert_to_tool_format(rule) ==
    embed_rule_id_in_content(
        rule.metadata.name \o <<"\n">> \o repeat(<<"=">>, str_len(rule.metadata.name))
        \o <<"\n", "\n">>
        \o (IF rule.metadata.description.some
            THEN rule.metadata.description.val \o <<"\n", "\n">>
            ELSE <<>>)
        \o goose_sections(rule.content),
        rule.id)

\* next_line.chars().all(|c| c == ch) && next_line.len() > 0
is_run_of(l, chars) == l # <<>> /\ \A i \in 1..Len(l) : l[i] \in chars

\* One turn of the while loop of parse_goose_format, at line st.i.
goose_step(ls, st) ==
    LET line == trim(ls[st.i])
        n == Len(ls)
    IN  IF st.i + 1 <= n /\ line # <<>>
        THEN LET next_line == trim(ls[st.i + 1])
             IN  IF is_run_of(next_line, {"="}) \/ is_run_of(next_line, {"-"})
                 THEN IF \A k \in 1..Len(next_line) : next_line[k] = "="
                      THEN \* the main title, underlined with =
                           LET i1 == st.i + 1
                               j == next_non_blank(ls, i1)
                               is_description ==
                                   /\ j <= n
                                   /\ IF j + 1 <= n
                                      THEN ~is_run_of(trim(ls[j + 1]), {"=", "-"})
                                      ELSE TRUE
                           IN  [st EXCEPT !.name = line,
                                          !.description = IF is_description THEN Some(trim(ls[j])) ELSE @,
                                          !.i = (IF is_description THEN j ELSE i1) + 1]
                      ELSE \* a section title, underlined with -
                           [st EXCEPT !.sections =
                                          IF st.current.some
                                             /\ close_section(st.current.val, "plaintext").value # <<>>
                                          THEN Append(@, close_section(st.current.val, "plaintext"))
                                          ELSE @,
                                      !.current = Some([title |-> line, lines |-> <<>>]),
                                      !.i = @ + 2]
                 ELSE IF st.current.some
                 THEN [st EXCEPT !.current = IF starts_with(line, MarkerOpen) THEN @
                                             ELSE Some([@.val EXCEPT !.lines = Append(@, line)]),
                                 !.i = @ + 1]
                 ELSE IF ~starts_with(line, MarkerOpen)
                         /\ st.name # <<>> /\ st.name # ImportedRuleName
                 THEN [st EXCEPT !.current = Some([title |-> ContentTitle, lines |-> <<line>>]),
                                 !.i = @ + 1]
                 ELSE [st EXCEPT !.i = @ + 1]
        ELSE IF st.current.some
        THEN [st EXCEPT !.current = Some([@.val EXCEPT !.lines = Append(@, line)]),
                        !.i = @ + 1]
        ELSE IF line # <<>> /\ (st.name = <<>> \/ st.name = ImportedRuleName)
        THEN [st EXCEPT !.current = Some([title |-> ContentTitle, lines |-> <<line>>]),
                        !.i = @ + 1]
        ELSE [st EXCEPT !.i = @ + 1]

RECURSIVE goose_loop(_, _)
goose_loop(ls, st) == IF st.i > Len(ls) THEN st ELSE goose_loop(ls, goose_step(ls, st))

parse_goose_format(content) ==
    finish_parse(content, goose_loop(lines(content), ParseStart), "plaintext", FALSE)

goose_convert_from_tool_format(content, now) ==
    LET parsed == parse_goose_format(content)
        rule_id == determine_rule_id_with_fallback(content, None, Some(parsed.name), now)
    IN  Ok(imported_rule(rule_id.val, parsed, <<>>, <<>>, NoOverrides))

(***************************************************************************)
(* src/converters/cursor.rs                                                *)
(***************************************************************************)
FrontmatterDelimiter == <<"-", "-", "-">>

DescriptionKey == <<"d", "e", "s", "c", "r", "i", "p", "t", "i", "o", "n">>

NotesKey == <<"n", "o", "t", "e", "s">>

GlobsKey == <<"g", "l", "o", "b", "s">>

AlwaysApplyKey == <<"a", "l", "w", "a", "y", "s", "A", "p", "p", "l", "y">>

RulePrefix == <<"R", "u", "l", "e", ":", " ">>

TrueWord == <<"t", "r", "u", "e">>

FalseWord == <<"f", "a", "l", "s", "e">>

Quote == <<"\"">>

RECURSIVE indented_lines(_)
indented_lines(ls) ==
    IF ls = <<>> THEN <<>> ELSE <<" ", " ">> \o Head(ls) \o <<"\n">> \o indented_lines(Tail(ls))

cursor_description(rule) ==
    IF rule.metadata.description.some
    THEN LET desc == rule.metadata.description.val
         IN  (IF contains(desc, <<"\n">>)
              THEN DescriptionKey \o <<":", " ", "|", "\n">> \o indented_lines(lines(desc))
              ELSE DescriptionKey \o <<":", " ">> \o Quote \o desc \o Quote \o <<"\n">>)
             \o NotesKey \o <<":", " ">> \o Quote \o RulePrefix \o rule.metadata.name \o Quote \o <<"\n">>
    ELSE DescriptionKey \o <<":", " ">> \o Quote \o rule.metadata.name \o Quote \o <<"\n">>

\* The apply mode Cursor export resolves: the apply_mode override, else the
\* legacy auto_apply override, else by the presence of conditions.
cursor_apply_mode(rule) ==
    LET has_cursor == "cursor" \in DOMAIN rule.tool_overrides
        cursor_overrides == rule.tool_overrides["cursor"]
        has_mode == /\ has_cursor
                    /\ "apply_mode" \in DOMAIN cursor_overrides
                    /\ cursor_overrides["apply_mode"].t = "string"
        auto_apply == /\ has_cursor
                      /\ "auto_apply" \in DOMAIN cursor_overrides
                      /\ cursor_overrides["auto_apply"].t = "bool"
                      /\ cursor_overrides["auto_apply"].v
    IN  IF has_mode THEN cursor_overrides["apply_mode"].v
        ELSE IF auto_apply THEN "always"
        ELSE IF rule.conditions # <<>> THEN "specific_files"
        ELSE "intelligent"

RECURSIVE glob_lines(_)
glob_lines(conditions) ==
    IF conditions = <<>> THEN <<>>
    ELSE (IF Head(conditions).type = "file_pattern"
          THEN <<" ", " ", "-", " ">> \o Quote \o Head(conditions).value \o Quote \o <<"\n">>
          ELSE <<>>) \o glob_lines(Tail(conditions))

\* A plausible slip: the globs are written whenever the rule has conditions,
\* whatever the apply mode.
cursor_globs_whenever_conditions(rule) ==
    IF rule.conditions # <<>>
    THEN GlobsKey \o <<":", "\n">> \o glob_lines(rule.conditions)
    ELSE <<>>

cursor_globs(rule) ==
    IF cursor_apply_mode(rule) = "specific_files" /\ rule.conditions # <<>>
    THEN GlobsKey \o <<":", "\n">> \o glob_lines(rule.conditions)
    ELSE <<>>

RECURSIVE cursor_sections(_)
cursor_sections(content) ==
    IF content = <<>> THEN <<>>
    ELSE H1 \o Head(content).title \o <<"\n", "\n">> \o Head(content).value \o <<"\n", "\n">>
         \o cursor_sections(Tail(content))

RECURSIVE cursor_references(_)
cursor_references(references) ==
    IF references = <<>> THEN <<>>
    ELSE <<"@">> \o Head(references).path \o <<"\n">> \o cursor_references(Tail(references))

cursor_convert_to_tool_format(rule) ==
    FrontmatterDelimiter \o <<"\n">>
    \o cursor_description(rule)
    \o cursor_globs(rule)
    \o AlwaysApplyKey \o <<":", " ">>
    \o (IF cursor_apply_mode(rule) = "always" THEN TrueWord ELSE FalseWord) \o <<"\n">>
    \o FrontmatterDelimiter \o <<"\n", "\n">>
    \o cursor_sections(rule.content)
    \o cursor_references(rule.references)

(***************************************************************************)
(* serde_yaml::from_str, for the part of YAML the frontmatter uses: a      *)
(* mapping with one entry per top-level line, whose value is a             *)
(* double-quoted scalar, a plain scalar, a literal block scalar (|) or a   *)
(* block sequence of scalars.  A document that YAML rejects gives          *)
(* Err("yaml"); a document outside this part gives Err("unmodelled"), and  *)
(* the specifications below never reach one.                               *)
(***************************************************************************)
YNull == [t |-> "null"]

YStr(v) == [t |-> "str", v |-> v]

YBool(v) == [t |-> "bool", v |-> v]

YSeq(v) == [t |-> "seq", v |-> v]

YMap(entries) == [t |-> "map", v |-> entries]

RECURSIVE indent_of(_)
indent_of(l) == IF l # <<>> /\ Head(l) = " " THEN 1 + indent_of(Tail(l)) ELSE 0

PlainChar(c) == is_alphanumeric(c) \/ c \in {" ", "-", "_", "."}

\* A double-quoted scalar: s[i] is the character after the opening quote.
RECURSIVE yaml_double_quoted(_, _, _)
yaml_double_quoted(s, i, acc) ==
    IF i > Len(s) THEN Err("unmodelled")
    ELSE IF s[i] = "\""
    THEN IF trim(SubSeq(s, i + 1, Len(s))) = <<>> THEN Ok(YStr(acc))
         ELSE IF starts_with(trim(SubSeq(s, i + 1, Len(s))), Hash) THEN Err("unmodelled")
         ELSE Err("yaml")
    ELSE IF s[i] = "\\"
    THEN IF i = Len(s) THEN Err("unmodelled")
         ELSE IF s[i + 1] \in {"\"", "\\"} THEN yaml_double_quoted(s, i + 2, Append(acc, s[i + 1]))
         ELSE IF s[i + 1] = "n" THEN yaml_double_quoted(s, i + 2, Append(acc, "\n"))
         ELSE IF s[i + 1] = "t" THEN yaml_double_quoted(s, i + 2, Append(acc, "\t"))
         ELSE IF s[i + 1] \in {"0", "a", "b", "e", "f", "r", "v", "N", "_", "L", "P", "x", "u", "U", " ", "/"}
         THEN Err("unmodelled")
         ELSE Err("yaml")
    ELSE yaml_double_quoted(s, i + 1, Append(acc, s[i]))

\* A scalar written on one line; rest_of_doc is the text after it.
yaml_scalar(v, rest_of_doc) ==
    IF v = <<>> THEN Ok(YNull)
    ELSE IF Head(v) = "\"" THEN yaml_double_quoted(v, 2, <<>>)
    ELSE IF Head(v) \in {"[", "{"}
    THEN IF \E i \in 1..Len(v) : v[i] \in {"]", "}"} THEN Err("unmodelled")
         ELSE IF \E i \in 1..Len(rest_of_doc) : rest_of_doc[i] \in {"]", "}"} THEN Err("unmodelled")
         ELSE Err("yaml")
    ELSE IF v = TrueWord THEN Ok(YBool(TRUE))
    ELSE IF v = FalseWord THEN Ok(YBool(FALSE))
    ELSE IF /\ is_ascii_lowercase(Head(v)) \/ is_ascii_uppercase(Head(v))
            /\ \A i \in 1..Len(v) : PlainChar(v[i])
            /\ to_lowercase(v) \notin {<<"n", "u", "l", "l">>, TrueWord, FalseWord}
    THEN Ok(YStr(v))
    ELSE Err("unmodelled")

\* The lines of a literal block scalar that starts at line i: to the next
\* line that is not blank and not indented.
RECURSIVE block_end(_, _)
block_end(ls, i) ==
    IF i > Len(ls) THEN i - 1
    ELSE IF trim(ls[i]) = <<>> \/ indent_of(ls[i]) > 0 THEN block_end(ls, i + 1)
    ELSE i - 1

RECURSIVE drop_trailing_empty(_)
drop_trailing_empty(ls) ==
    IF ls # <<>> /\ ls[Len(ls)] = <<>> THEN drop_trailing_empty(SubSeq(ls, 1, Len(ls) - 1)) ELSE ls

\* The value of key: | with the block in lines from..to: the indentation of
\* the first line that is not blank is removed from every line, and the
\* text ends with one line break.
yaml_block_scalar(ls, from, to) ==
    LET non_blank == {j \in from..to : trim(ls[j]) # <<>>}
        first == CHOOSE j \in non_blank : \A k \in non_blank : j <= k
        ind == indent_of(ls[first])
        body == [j \in 1..(to - from + 1) |->
                    IF Len(ls[from + j - 1]) > ind
                    THEN SubSeq(ls[from + j - 1], ind + 1, Len(ls[from + j - 1]))
                    ELSE <<>>]
        kept == drop_trailing_empty(body)
    IN  IF non_blank = {} THEN Ok(YStr(<<>>))
        ELSE IF \E j \in non_blank : indent_of(ls[j]) < ind THEN Err("unmodelled")
        ELSE IF \E j \in (from..to) \ non_blank : Len(ls[j]) > ind THEN Err("unmodelled")
        ELSE Ok(YStr(join(kept, <<"\n">>) \o <<"\n">>))

IsSeqItem(l) == starts_with(trim(l), <<"-", " ">>)

RECURSIVE seq_end(_, _)
seq_end(ls, i) ==
    IF i > Len(ls) THEN i - 1
    ELSE IF IsSeqItem(ls[i]) THEN seq_end(ls, i + 1)
    ELSE i - 1

rest_text(ls, from) == join(SubSeq(ls, from, Len(ls)), <<"\n">>)

\* The value of key: followed by the block sequence in lines from..to.
yaml_block_sequence(ls, from, to) ==
    LET items == [j \in 1..(to - from + 1) |->
                     yaml_scalar(trim(SubSeq(trim(ls[from + j - 1]), 3, Len(trim(ls[from + j - 1])))),
                                 rest_text(ls, from + j))]
    IN  IF \E j \in from..to : indent_of(ls[j]) # indent_of(ls[from]) THEN Err("unmodelled")
        ELSE IF \E j \in 1..Len(items) : ~items[j].ok
        THEN (IF \E j \in 1..Len(items) : ~items[j].ok /\ items[j].err = "unmodelled"
              THEN Err("unmodelled") ELSE Err("yaml"))
        ELSE Ok(YSeq([j \in 1..Len(items) |-> items[j].val]))

\* The place of the colon that ends the key of a top-level line, 0 if none.
key_colon(l) ==
    LET colons == {k \in 1..Len(l) : l[k] = ":" /\ (k = Len(l) \/ l[k + 1] = " ")}
    IN  IF colons = {} THEN 0 ELSE CHOOSE k \in colons : \A m \in colons : k <= m

RECURSIVE yaml_entries(_, _, _)
yaml_entries(ls, i, acc) ==
    IF i > Len(ls) THEN Ok(acc)
    ELSE IF trim(ls[i]) = <<>> \/ starts_with(trim(ls[i]), Hash) THEN yaml_entries(ls, i + 1, acc)
    ELSE LET l == ls[i]
             k == key_colon(l)
             key == SubSeq(l, 1, k - 1)
             rest == trim(SubSeq(l, k + 1, Len(l)))
             b_to == block_end(ls, i + 1)
             s_to == seq_end(ls, i + 1)
             parsed == IF rest = <<"|">> THEN [v |-> yaml_block_scalar(ls, i + 1, b_to), next |-> b_to + 1]
                       ELSE IF rest = <<>> /\ s_to > i
                       THEN [v |-> yaml_block_sequence(ls, i + 1, s_to), next |-> s_to + 1]
                       ELSE [v |-> yaml_scalar(rest, rest_text(ls, i + 1)), next |-> i + 1]
         IN  IF indent_of(l) > 0 \/ k = 0 \/ key = <<>> THEN Err("unmodelled")
             ELSE IF \E j \in 1..Len(key) : ~PlainChar(key[j]) THEN Err("unmodelled")
             ELSE IF \E j \in 1..Len(acc) : acc[j].key = key THEN Err("unmodelled")
             ELSE IF ~parsed.v.ok THEN parsed.v
             ELSE yaml_entries(ls, parsed.next, Append(acc, [key |-> key, value |-> parsed.v.val]))

serde_yaml_from_str(str) ==
    LET entries == yaml_entries(lines(str), 1, <<>>)
    IN  IF ~entries.ok THEN entries
        ELSE IF entries.val = <<>> THEN Ok(YNull)
        ELSE Ok(YMap(entries.val))

\* Value::get: the value of a key of a mapping, none for any other value.
yaml_get(value, key) ==
    IF value.t # "map" THEN None
    ELSE LET found == {j \in 1..Len(value.v) : value.v[j].key = key}
         IN  IF found = {} THEN None ELSE Some(value.v[CHOOSE j \in found : TRUE].value)

\* .and_then(|v| v.as_str())
yaml_get_str(value, key) ==
    LET got == yaml_get(value, key)
    IN  IF got.some /\ got.val.t = "str" THEN Some(got.val.v) ELSE None

(***************************************************************************)
(* src/converters/cursor.rs: import                                        *)
(***************************************************************************)
\* The index of the first line after the first that reads "---", 0 if none.
frontmatter_end(ls) ==
    LET closing == {i \in 2..Len(ls) : trim(ls[i]) = FrontmatterDelimiter}
    IN  IF closing = {} THEN 0 ELSE CHOOSE i \in closing : \A j \in closing : i <= j

\* A plausible slip: a frontmatter that does not parse is taken as absent
\* (unwrap_or(Value::Null) in place of map_err(..)?).
split_frontmatter_lenient(frontmatter, markdown) ==
    Ok([frontmatter |-> IF frontmatter.ok THEN frontmatter.val ELSE YNull, markdown |-> markdown])

\* Ok((frontmatter, markdown)), or the error of the frontmatter.
split_frontmatter(frontmatter, markdown) ==
    IF ~frontmatter.ok THEN frontmatter
    ELSE Ok([frontmatter |-> frontmatter.val, markdown |-> markdown])

\* The text split into the parsed frontmatter and the Markdown after it.
parse_frontmatter(ls, end) ==
    IF end = 0 THEN Err("missing closing ---")
    ELSE split_frontmatter(serde_yaml_from_str(join(SubSeq(ls, 2, end - 1), <<"\n">>)),
                           trim(join(SubSeq(ls, end + 1, Len(ls)), <<"\n">>)))

parse_cursor_format(content) ==
    IF ~starts_with(content, FrontmatterDelimiter)
    THEN Ok([frontmatter |-> YNull, markdown |-> content])
    ELSE parse_frontmatter(lines(content), frontmatter_end(lines(content)))

\* A section is saved when its value or its title is not empty.
save_section(sections, current) ==
    IF current.some
       /\ (close_section(current.val, "markdown").value # <<>> \/ current.val.title # <<>>)
    THEN Append(sections, close_section(current.val, "markdown"))
    ELSE sections

\* One turn of the for loop of parse_markdown_content; lines are not trimmed.
markdown_step(line, st) ==
    IF starts_with(line, H1) \/ starts_with(line, H2)
    THEN [st EXCEPT !.sections = save_section(@, st.current),
                    !.current = Some([title |-> IF starts_with(line, H1)
                                                THEN trim(SubSeq(line, 3, Len(line)))
                                                ELSE trim(SubSeq(line, 4, Len(line))),
                                      lines |-> <<>>])]
    ELSE IF starts_with(line, <<"@">>)
    THEN [st EXCEPT !.references = Append(@, Reference(trim(SubSeq(line, 2, Len(line)))))]
    ELSE IF st.current.some
    THEN [st EXCEPT !.current = Some([@.val EXCEPT !.lines = Append(@, line)])]
    ELSE IF trim(line) # <<>>
    THEN [st EXCEPT !.current = Some([title |-> ContentTitle, lines |-> <<line>>])]
    ELSE st

RECURSIVE markdown_loop(_, _)
markdown_loop(ls, st) ==
    IF ls = <<>> THEN st ELSE markdown_loop(Tail(ls), markdown_step(Head(ls), st))

parse_markdown_content(markdown) ==
    LET st == markdown_loop(lines(markdown), [sections |-> <<>>, references |-> <<>>, current |-> None])
        saved == save_section(st.sections, st.current)
    IN  [sections |-> IF saved = <<>> /\ trim(markdown) # <<>>
                      THEN <<[title |-> ContentTitle, format |-> "markdown", value |-> trim(markdown)]>>
                      ELSE saved,
         references |-> st.references]

\* A plausible slip: no default name when nothing names the rule.
cursor_name_no_default(frontmatter, content_sections) ==
    IF yaml_get_str(frontmatter, DescriptionKey).some
    THEN yaml_get_str(frontmatter, DescriptionKey).val
    ELSE IF content_sections # <<>> THEN content_sections[1].title
    ELSE <<>>

\* The name: notes when it reads "Rule: X", else the description, else the
\* title of the first section, else "Imported Rule".
cursor_name(frontmatter, content_sections) ==
    LET notes == yaml_get_str(frontmatter, NotesKey)
        description == yaml_get_str(frontmatter, DescriptionKey)
    IN  IF notes.some /\ starts_with(notes.val, RulePrefix)
        THEN SubSeq(notes.val, Len(RulePrefix) + 1, Len(notes.val))
        ELSE IF description.some THEN description.val
        ELSE IF content_sections # <<>> THEN content_sections[1].title
        ELSE ImportedRuleName

RECURSIVE globs_to_conditions(_)
globs_to_conditions(items) ==
    IF items = <<>> THEN <<>>
    ELSE (IF Head(items).t = "str" THEN <<FilePattern(Head(items).v)>> ELSE <<>>)
         \o globs_to_conditions(Tail(items))

\* The rule built from the parsed frontmatter and the parsed Markdown.
cursor_rule(frontmatter, parsed_markdown) ==
    LET name == cursor_name(frontmatter, parsed_markdown.sections)
        described == yaml_get_str(frontmatter, DescriptionKey)
        description == IF described.some /\ described.val # <<>> /\ described.val # name
                       THEN described ELSE None
        globs == yaml_get(frontmatter, GlobsKey)
        conditions == IF globs.some /\ globs.val.t = "seq"
                      THEN globs_to_conditions(globs.val.v) ELSE <<>>
        always == yaml_get(frontmatter, AlwaysApplyKey)
        always_apply == always.some /\ always.val.t = "bool" /\ always.val.v
        apply_mode == IF always_apply THEN "always"
                      ELSE IF conditions # <<>> THEN "specific_files"
                      ELSE "intelligent"
    IN  imported_rule(rule_id_from_name(name),
                      [name |-> name, description |-> description,
                       sections |-> parsed_markdown.sections],
                      parsed_markdown.references,
                      conditions,
                      [cursor |-> [apply_mode |-> JString(apply_mode),
                                   auto_apply |-> JBool(always_apply)]])

\* parse_cursor_format(content)?, then the rest of the import.
cursor_import_parsed(split_text) ==
    IF ~split_text.ok THEN split_text
    ELSE Ok(cursor_rule(split_text.val.frontmatter,
                        parse_markdown_content(split_text.val.markdown)))

cursor_convert_from_tool_format(content) == cursor_import_parsed(parse_cursor_format(content))

(***************************************************************************)
(* The converters as a state machine: a stored rule and a tool are drawn,  *)
(* the rule is exported to the tool's text, and the text is imported.      *)
(***************************************************************************)
MaxSections == 2

Tools == {"cursor", "cline", "claude-code", "goose"}

ConvNames == {<<"M", "y", " ", "R", "u", "l", "e">>, <<"a", "p", "i">>}

ConvIds == {<<"m", "y", "-", "r", "u", "l", "e">>, <<"x", "1">>}

ConvDescriptions == {None, Some(<<"D", "e", "s", "c">>), Some(<<"O", "n", "e", "\n", "T", "w", "o">>)}

\* Sections of plain text, with a fenced code block (a comment line and an
\* indented line in it), and with a sub-heading.
ConvSections ==
    { Section(<<"U", "s", "e">>, <<"d", "o", " ", "x">>),
      Section(<<"S", "e", "t", "u", "p">>,
              <<"~", "~", "~", "\n", "#", " ", "c", "\n", " ", " ", "y", "\n", "~", "~", "~">>),
      Section(<<"M", "o", "r", "e">>, <<"a", "\n", "#", "#", " ", "b", "\n", "c">>) }

\* References, conditions and overrides of a rule.
ConvExtras ==
    { [references |-> <<>>, conditions |-> <<>>, tool_overrides |-> NoOverrides],
      [references |-> <<Reference(Path1)>>, conditions |-> <<FilePattern(Glob1)>>,
       tool_overrides |-> [cursor |-> [apply_mode |-> JString("specific_files")]]],
      [references |-> <<>>, conditions |-> <<FilePattern(Glob1), Regex(<<"x">>)>>,
       tool_overrides |-> [cursor |-> [auto_apply |-> JBool(TRUE)]]] }

ConvRules ==
    { UniversalRule(id, DefaultVersion, name, description, <<Tag1>>, DefaultPriority,
                    content, extra.references, extra.conditions, extra.tool_overrides) :
        id \in ConvIds, name \in ConvNames, description \in ConvDescriptions,
        content \in SeqsUpTo(ConvSections, MaxSections), extra \in ConvExtras }

ImportTimes == {1700000000}

InitConv ==
    /\ pc = "stored"
    /\ call \in [op : {"round_trip"}, tool : Tools, rule : ConvRules, now : ImportTimes]
    /\ text = <<>>
    /\ result = None
    /\ store = EmptyStore

Export(tool, exported) ==
    /\ pc = "stored"
    /\ call.tool = tool
    /\ text' = exported
    /\ pc' = "exported"
    /\ UNCHANGED <<call, result, store>>

Import(tool, imported) ==
    /\ pc = "exported"
    /\ call.tool = tool
    /\ result' = imported
    /\ pc' = "imported"
    /\ UNCHANGED <<call, text, store>>

CursorExport == Export("cursor", cursor_convert_to_tool_format(call.rule))

ClineExport == Export("cline", cline_convert_to_tool_format(call.rule))

ClaudeCodeExport == Export("claude-code", claude_code_convert_to_tool_format(call.rule))

GooseExport == Export("goose", goose_convert_to_tool_format(call.rule))

CursorImport == Import("cursor", cursor_convert_from_tool_format(text))

ClineImport == Import("cline", cline_convert_from_tool_format(text))

ClaudeCodeImport == Import("claude-code", claude_code_convert_from_tool_format(text, call.now))

GooseImport == Import("goose", goose_convert_from_tool_format(text, call.now))

NextConv ==
    \/ CursorExport
    \/ ClineExport
    \/ ClaudeCodeExport
    \/ GooseExport
    \/ CursorImport
    \/ ClineImport
    \/ ClaudeCodeImport
    \/ GooseImport

SpecConv == InitConv /\ [][NextConv]_vars

\* Every frontmatter the specification parses lies in the modelled part of YAML.
YamlModelled == ~(pc = "imported" /\ ~result.ok /\ result.err = "unmodelled")

(***************************************************************************)
(* Properties of the converters                                            *)
(***************************************************************************)
RoundTripped == pc = "imported" /\ call.op = "round_trip"

\* C1: for each converter, importing the exported text of a rule gives a
\* rule of the same name.
C1_RoundTripKeepsName ==
    RoundTripped => (result.ok /\ result.val.metadata.name = call.rule.metadata.name)

\* C2: for each converter, importing the exported text of a structurally
\* valid rule, with no file name given, gives a rule of the same id.
StructurallyValid(rule) ==
    /\ is_valid_rule_id(rule.id)
    /\ rule.metadata.name # <<>>
    /\ rule.metadata.priority \in 1..10
    /\ rule.content # <<>>

C2_RoundTripKeepsId ==
    (RoundTripped /\ StructurallyValid(call.rule)) => (result.ok /\ result.val.id = call.rule.id)

SectionNonEmpty(section) == trim(section.title) # <<>> /\ trim(section.value) # <<>>

\* C3: for each converter, importing the exported text of a rule whose
\* sections are all non-empty gives a rule with as many sections.
C3_RoundTripKeepsSectionCount ==
    (RoundTripped /\ \A i \in 1..Len(call.rule.content) : SectionNonEmpty(call.rule.content[i]))
        => (result.ok /\ Len(result.val.content) = Len(call.rule.content))

(***************************************************************************)
(* serde_yaml::to_string, for the values the rule store writes.  A string  *)
(* is written plain where YAML reads it back as the same string, between   *)
(* single quotes where it does not, and as a literal block where it holds  *)
(* line breaks; a string that needs double-quoted escapes gives            *)
(* Err("unmodelled"), and the specifications below never reach one.        *)
(***************************************************************************)
\* Characters that cannot start a plain scalar (and the grave accent, which
\* no string of this model holds).
YamlIndicators == {"#", ",", "[", "]", "{", "}", "&", "*", "!", "|", ">", "'", "\"", "%", "@"}

\* Strings YAML reads as null, a boolean or a number rather than as text.
YamlReserved ==
    { <<"n", "u", "l", "l">>, <<"N", "u", "l", "l">>, <<"N", "U", "L", "L">>, <<"~">>,
      <<"t", "r", "u", "e">>, <<"T", "r", "u", "e">>, <<"T", "R", "U", "E">>,
      <<"f", "a", "l", "s", "e">>, <<"F", "a", "l", "s", "e">>, <<"F", "A", "L", "S", "E">> }

number_like(s) ==
    /\ s # <<>>
    /\ \A i \in 1..Len(s) : is_ascii_digit(s[i]) \/ s[i] = "."
    /\ \E i \in 1..Len(s) : is_ascii_digit(s[i])
    /\ Cardinality({i \in 1..Len(s) : s[i] = "."}) <= 1

\* The emitter's analysis of a one-line string: may it be written plain
\* as the value of a key of a block mapping.
plain_allowed(s) ==
    /\ s # <<>>
    /\ ~is_whitespace(s[1]) /\ ~is_whitespace(s[Len(s)])
    /\ s[1] \notin YamlIndicators
    /\ ~(s[1] \in {"-", "?", ":"} /\ (Len(s) = 1 \/ is_whitespace(s[2])))
    /\ ~starts_with(s, <<"-", "-", "-">>) /\ ~starts_with(s, <<".", ".", ".">>)
    /\ \A i \in 1..Len(s) : s[i] = ":" => (i < Len(s) /\ ~is_whitespace(s[i + 1]))
    /\ \A i \in 2..Len(s) : s[i] = "#" => ~is_whitespace(s[i - 1])

RECURSIVE double_single_quotes(_)
double_single_quotes(s) ==
    IF s = <<>> THEN <<>>
    ELSE (IF Head(s) = "'" THEN <<"'", "'">> ELSE <<Head(s)>>) \o double_single_quotes(Tail(s))

\* The lines a string takes as the value of a key: the first is what
\* follows "key:", the others are the lines of a literal block, indented
\* by indent.
yaml_string_lines(s, indent) ==
    IF \E i \in 1..Len(s) : s[i] \in {"\t", "\r", "\\"} THEN Err("unmodelled")
    ELSE IF contains(s, <<"\n">>)
    THEN LET pieces == split(s, "\n")
             breaks == Len(pieces) - 1
             body == IF pieces[Len(pieces)] = <<>> THEN SubSeq(pieces, 1, breaks) ELSE pieces
         IN  IF \/ \E i \in 1..Len(pieces) : pieces[i] # <<>> /\ is_whitespace(pieces[i][Len(pieces[i])])
                \/ is_whitespace(s[1]) \/ body[Len(body)] = <<>>
             THEN Err("unmodelled")
             ELSE Ok(<<IF pieces[Len(pieces)] = <<>> THEN <<" ", "|">> ELSE <<" ", "|", "-">>>>
                     \o [i \in 1..Len(body) |->
                            IF body[i] = <<>> THEN <<>> ELSE repeat(<<" ">>, indent) \o body[i]])
    ELSE IF s \in YamlReserved \/ number_like(s) \/ ~plain_allowed(s)
    THEN Ok(<<<<" ", "'">> \o double_single_quotes(s) \o <<"'">>>>)
    ELSE Ok(<<<<" ">> \o s>>)

IdKey == <<"i", "d">>

VersionKey == <<"v", "e", "r", "s", "i", "o", "n">>

MetadataKey == <<"m", "e", "t", "a", "d", "a", "t", "a">>

NameKey == <<"n", "a", "m", "e">>

TagsKey == <<"t", "a", "g", "s">>

PriorityKey == <<"p", "r", "i", "o", "r", "i", "t", "y">>

ContentKey == <<"c", "o", "n", "t", "e", "n", "t">>

ReferencesKey == <<"r", "e", "f", "e", "r", "e", "n", "c", "e", "s">>

ConditionsKey == <<"c", "o", "n", "d", "i", "t", "i", "o", "n", "s">>

ToolOverridesKey == <<"t", "o", "o", "l", "_", "o", "v", "e", "r", "r", "i", "d", "e", "s">>

TitleKey == <<"t", "i", "t", "l", "e">>

FormatKey == <<"f", "o", "r", "m", "a", "t">>

ValueKey == <<"v", "a", "l", "u", "e">>

PathKey == <<"p", "a", "t", "h">>

TypeKey == <<"t", "y", "p", "e">>

CursorKey == <<"c", "u", "r", "s", "o", "r">>

ApplyModeKey == <<"a", "p", "p", "l", "y", "_", "m", "o", "d", "e">>

AutoApplyKey == <<"a", "u", "t", "o", "_", "a", "p", "p", "l", "y">>

NullWord == <<"n", "u", "l", "l">>

\* The names serde writes for ContentFormat, RuleCondition and the apply modes.
variant_name(v) ==
    CASE v = "markdown" -> <<"m", "a", "r", "k", "d", "o", "w", "n">>
      [] v = "plaintext" -> <<"p", "l", "a", "i", "n", "t", "e", "x", "t">>
      [] v = "code" -> <<"c", "o", "d", "e">>
      [] v = "file_pattern" -> <<"f", "i", "l", "e", "_", "p", "a", "t", "t", "e", "r", "n">>
      [] v = "regex" -> <<"r", "e", "g", "e", "x">>
      [] v = "always" -> <<"a", "l", "w", "a", "y", "s">>
      [] v = "intelligent" -> <<"i", "n", "t", "e", "l", "l", "i", "g", "e", "n", "t">>
      [] v = "specific_files" -> <<"s", "p", "e", "c", "i", "f", "i", "c", "_", "f", "i", "l", "e", "s">>
      [] v = "manual" -> <<"m", "a", "n", "u", "a", "l">>

\* "key:" at an indentation, and "- key:" as the first key of a sequence item.
yaml_key(indent, key) == repeat(<<" ">>, indent) \o key \o <<":">>

yaml_item_key(indent, key) == repeat(<<" ">>, indent) \o <<"-", " ">> \o key \o <<":">>

\* The lines of an entry whose value is a string; block lines at block_indent.
yaml_entry(prefix, s, block_indent) ==
    LET value_lines == yaml_string_lines(s, block_indent).val
    IN  <<prefix \o Head(value_lines)>> \o Tail(value_lines)

yaml_section(section) ==
    yaml_entry(yaml_item_key(0, TitleKey), section.title, 4)
    \o <<yaml_key(2, FormatKey) \o <<" ">> \o variant_name(section.format)>>
    \o yaml_entry(yaml_key(2, ValueKey), section.value, 4)

yaml_reference(reference) == yaml_entry(yaml_item_key(0, PathKey), reference.path, 4)

yaml_condition(condition) ==
    <<yaml_item_key(0, TypeKey) \o <<" ">> \o variant_name(condition.type)>>
    \o yaml_entry(yaml_key(2, ValueKey), condition.value, 4)

\* Every string of a rule can be written without double-quoted escapes.
yaml_writable(strings) == \A i \in 1..Len(strings) : yaml_string_lines(strings[i], 0).ok

content_strings(content) ==
    flatten([i \in 1..Len(content) |-> <<content[i].title, content[i].value>>])

\* serde_yaml::to_string(&rule.content)
content_to_string(content) ==
    IF ~yaml_writable(content_strings(content)) THEN Err("unmodelled")
    ELSE IF content = <<>> THEN Ok(<<"[", "]", "\n">>)
    ELSE Ok(join(flatten([i \in 1..Len(content) |-> yaml_section(content[i])]), <<"\n">>) \o <<"\n">>)

yaml_description(description) ==
    IF description.some THEN yaml_entry(yaml_key(2, DescriptionKey), description.val, 4)
    ELSE <<yaml_key(2, DescriptionKey) \o <<" ">> \o NullWord>>

\* A sequence under a key: "key: []" when empty, else the key and the items.
yaml_sequence(key_line, item_lines) ==
    IF item_lines = <<>> THEN <<key_line \o <<" ", "[", "]">>>> ELSE <<key_line>> \o item_lines

yaml_tags(tags) ==
    yaml_sequence(yaml_key(2, TagsKey),
                  flatten([i \in 1..Len(tags) |-> yaml_entry(<<" ", " ", "-">>, tags[i], 4)]))

\* The option bags the imports build: none, or the two Cursor options, which
\* a serde_json object writes in the order of its keys.
yaml_tool_overrides(tool_overrides) ==
    IF DOMAIN tool_overrides = {} THEN Ok(<<yaml_key(0, ToolOverridesKey) \o <<" ", "{", "}">>>>)
    ELSE IF DOMAIN tool_overrides = {"cursor"}
            /\ DOMAIN tool_overrides["cursor"] = {"apply_mode", "auto_apply"}
    THEN Ok(<<yaml_key(0, ToolOverridesKey),
              yaml_key(2, CursorKey),
              yaml_key(4, ApplyModeKey) \o <<" ">> \o variant_name(tool_overrides["cursor"]["apply_mode"].v),
              yaml_key(4, AutoApplyKey) \o <<" ">>
                  \o (IF tool_overrides["cursor"]["auto_apply"].v THEN TrueWord ELSE FalseWord)>>)
    ELSE Err("unmodelled")

rule_strings(rule) ==
    <<rule.id, rule.version, rule.metadata.name>>
    \o (IF rule.metadata.description.some THEN <<rule.metadata.description.val>> ELSE <<>>)
    \o rule.metadata.tags
    \o content_strings(rule.content)
    \o [i \in 1..Len(rule.references) |-> rule.references[i].path]
    \o [i \in 1..Len(rule.conditions) |-> rule.conditions[i].value]

\* serde_yaml::to_string(rule): the fields in the order of the structs.
rule_to_string(rule) ==
    IF ~yaml_writable(rule_strings(rule)) \/ ~yaml_tool_overrides(rule.tool_overrides).ok
    THEN Err("unmodelled")
    ELSE Ok(join(yaml_entry(yaml_key(0, IdKey), rule.id, 2)
                 \o yaml_entry(yaml_key(0, VersionKey), rule.version, 2)
                 \o <<yaml_key(0, MetadataKey)>>
                 \o yaml_entry(yaml_key(2, NameKey), rule.metadata.name, 4)
                 \o yaml_description(rule.metadata.description)
                 \o yaml_tags(rule.metadata.tags)
                 \o <<yaml_key(2, PriorityKey) \o <<" ">> \o format_u64(rule.metadata.priority)>>
                 \o yaml_sequence(yaml_key(0, ContentKey),
                                  flatten([i \in 1..Len(rule.content) |-> yaml_section(rule.content[i])]))
                 \o yaml_sequence(yaml_key(0, ReferencesKey),
                                  flatten([i \in 1..Len(rule.references) |->
                                              yaml_reference(rule.references[i])]))
                 \o yaml_sequence(yaml_key(0, ConditionsKey),
                                  flatten([i \in 1..Len(rule.conditions) |->
                                              yaml_condition(rule.conditions[i])]))
                 \o yaml_tool_overrides(rule.tool_overrides).val,
                 <<"\n">>) \o <<"\n">>)

(***************************************************************************)
(* serde_yaml::from_str::<UniversalRule>, as FileStore::load_rule calls    *)
(* it, for the part of YAML the stored rule files use: block mappings and  *)
(* block sequences, plain and double-quoted scalars, literal block         *)
(* scalars, the flow forms [] and {} and flow sequences of strings, and    *)
(* comments.  A file the struct cannot be read from gives Err("yaml"); a   *)
(* file outside this part gives Err("unmodelled").                         *)
(***************************************************************************)
YNum(v) == [t |-> "num", v |-> v]

RECURSIVE parse_u64(_, _)
parse_u64(digits, acc) ==
    IF digits = <<>> THEN acc
    ELSE parse_u64(Tail(digits), acc * 10 + (CHOOSE d \in 0..9 : DigitSeq[d + 1] = Head(digits)))

\* A plain value without the comment that follows it.
without_comment(v) ==
    LET at == {k \in 2..Len(v) : v[k] = "#" /\ v[k - 1] = " "}
    IN  IF v # <<>> /\ Head(v) = "#" THEN <<>>
        ELSE IF at = {} THEN v
        ELSE trim(SubSeq(v, 1, (CHOOSE k \in at : \A m \in at : k <= m) - 1))

\* The place of the quote that closes the double-quoted scalar v, 0 if none.
closing_quote(v) ==
    LET at == {k \in 2..Len(v) : v[k] = "\"" /\ v[k - 1] # "\\"}
    IN  IF at = {} THEN 0 ELSE CHOOSE k \in at : \A m \in at : k <= m

RECURSIVE urf_scalar(_)

\* The items of a flow sequence of strings.
urf_flow(parts) ==
    IF \E j \in 1..Len(parts) : ~urf_scalar(trim(parts[j])).ok \/ urf_scalar(trim(parts[j])).val.t # "str"
    THEN Err("unmodelled")
    ELSE Ok(YSeq([j \in 1..Len(parts) |-> urf_scalar(trim(parts[j])).val]))

urf_plain(v) ==
    IF v = <<>> \/ v = NullWord \/ v = <<"~">> THEN Ok(YNull)
    ELSE IF v = <<"[", "]">> THEN Ok(YSeq(<<>>))
    ELSE IF v = <<"{", "}">> THEN Ok(YMap(<<>>))
    ELSE IF Head(v) = "["
    THEN IF v[Len(v)] = "]" THEN urf_flow(split(SubSeq(v, 2, Len(v) - 1), ",")) ELSE Err("unmodelled")
    ELSE IF v = TrueWord THEN Ok(YBool(TRUE))
    ELSE IF v = FalseWord THEN Ok(YBool(FALSE))
    ELSE IF \A i \in 1..Len(v) : is_ascii_digit(v[i]) THEN Ok(YNum(parse_u64(v, 0)))
    ELSE IF plain_allowed(v) /\ v \notin YamlReserved /\ ~number_like(v) THEN Ok(YStr(v))
    ELSE Err("unmodelled")

\* A single-quoted scalar: s[i] is the character after the opening quote,
\* and two quotes in a row stand for one.
RECURSIVE yaml_single_quoted(_, _, _)
yaml_single_quoted(s, i, acc) ==
    IF i > Len(s) THEN Err("yaml")
    ELSE IF s[i] = "'"
    THEN IF i < Len(s) /\ s[i + 1] = "'" THEN yaml_single_quoted(s, i + 2, Append(acc, "'"))
         ELSE IF without_comment(trim(SubSeq(s, i + 1, Len(s)))) = <<>> THEN Ok(YStr(acc))
         ELSE Err("yaml")
    ELSE yaml_single_quoted(s, i + 1, Append(acc, s[i]))

\* A scalar written on one line, v trimmed.
urf_scalar(v) ==
    IF v = <<>> THEN Ok(YNull)
    ELSE IF Head(v) = "'" THEN yaml_single_quoted(v, 2, <<>>)
    ELSE IF Head(v) = "\""
    THEN IF closing_quote(v) = 0 THEN Err("yaml")
         ELSE IF without_comment(trim(SubSeq(v, closing_quote(v) + 1, Len(v)))) # <<>> THEN Err("yaml")
         ELSE yaml_double_quoted(SubSeq(v, 1, closing_quote(v)), 2, <<>>)
    ELSE urf_plain(without_comment(v))

\* The last line of the block scalar under a key indented by ind.
RECURSIVE urf_block_end(_, _, _)
urf_block_end(ls, i, ind) ==
    IF i > Len(ls) THEN i - 1
    ELSE IF trim(ls[i]) = <<>> \/ indent_of(ls[i]) > ind THEN urf_block_end(ls, i + 1, ind)
    ELSE i - 1

\* The literal block scalar in lines from..to; strip for |-, which ends the
\* text without a line break.
urf_block(ls, from, to, strip) ==
    IF ~yaml_block_scalar(ls, from, to).ok THEN yaml_block_scalar(ls, from, to)
    ELSE IF strip /\ yaml_block_scalar(ls, from, to).val.v # <<>>
    THEN Ok(YStr(SubSeq(yaml_block_scalar(ls, from, to).val.v, 1,
                        Len(yaml_block_scalar(ls, from, to).val.v) - 1)))
    ELSE yaml_block_scalar(ls, from, to)

\* A line of the file as read: the column of its key, whether it opens an
\* item of a sequence, its key (none for a bare item) and its value.
UrfItem(ind, dash, key, val) == [ind |-> ind, dash |-> dash, key |-> key, val |-> val]

BlockMarks == {<<"|">>, <<"|", "-">>}

urf_keyed_item(ls, i, ind, dash, key, rest) ==
    IF without_comment(rest) \in BlockMarks
    THEN [item |-> UrfItem(ind, dash, key,
                           urf_block(ls, i + 1, urf_block_end(ls, i + 1, ind),
                                     without_comment(rest) = <<"|", "-">>)),
          next |-> urf_block_end(ls, i + 1, ind) + 1]
    ELSE [item |-> UrfItem(ind, dash, key, urf_scalar(rest)), next |-> i + 1]

\* body is the text of line i after its indentation and its dash.
urf_line_item(ls, i, ind, dash, body) ==
    IF Head(body) \in {"\"", "'"} \/ key_colon(body) = 0
    THEN [item |-> UrfItem(ind, dash, <<>>, urf_scalar(body)), next |-> i + 1]
    ELSE urf_keyed_item(ls, i, ind, dash, SubSeq(body, 1, key_colon(body) - 1),
                        trim(SubSeq(body, key_colon(body) + 1, Len(body))))

RECURSIVE urf_scan(_, _, _)

urf_scan_from(ls, acc, parsed) == urf_scan(ls, parsed.next, Append(acc, parsed.item))

\* The lines of the file from line i on, blank lines and comment lines
\* passed over.
urf_scan(ls, i, acc) ==
    IF i > Len(ls) THEN acc
    ELSE IF trim(ls[i]) = <<>> \/ starts_with(trim(ls[i]), Hash) THEN urf_scan(ls, i + 1, acc)
    ELSE IF IsSeqItem(ls[i])
    THEN urf_scan_from(ls, acc, urf_line_item(ls, i, indent_of(ls[i]) + 2, TRUE,
                                              trim(SubSeq(trim(ls[i]), 3, Len(trim(ls[i]))))))
    ELSE urf_scan_from(ls, acc, urf_line_item(ls, i, indent_of(ls[i]), FALSE, trim(ls[i])))

\* The places of the top-level key among the items.
urf_top(items, key) == {p \in 1..Len(items) : items[p].ind = 0 /\ ~items[p].dash /\ items[p].key = key}

\* The items under the top-level key at place p.
urf_children(items, p) ==
    LET later == {q \in (p + 1)..Len(items) : items[q].ind = 0 /\ ~items[q].dash}
    IN  SubSeq(items, p + 1, IF later = {} THEN Len(items) ELSE (CHOOSE q \in later : \A m \in later : q <= m) - 1)

\* The value of the key among the entries of one mapping, none if absent.
urf_get(entries, key) ==
    LET at == {p \in 1..Len(entries) : entries[p].key = key}
    IN  IF at = {} THEN None ELSE Some(entries[CHOOSE p \in at : \A m \in at : p <= m].val)

\* The entries of the mapping that starts with the first of the items.
urf_mapping(items) ==
    IF items = <<>> THEN <<>> ELSE SelectSeq(items, LAMBDA it : it.ind = items[1].ind /\ it.key # <<>>)

\* A field of type String: absent and null are errors.
urf_string(got) ==
    IF ~got.some THEN Err("yaml")
    ELSE IF ~got.val.ok THEN got.val
    ELSE IF got.val.val.t = "str" THEN Ok(got.val.val.v)
    ELSE IF got.val.val.t = "null" THEN Err("yaml")
    ELSE Err("unmodelled")

\* A field of type Option<String>.
urf_option_string(got) ==
    IF ~got.some THEN Ok(None)
    ELSE IF ~got.val.ok THEN got.val
    ELSE IF got.val.val.t = "null" THEN Ok(None)
    ELSE IF got.val.val.t = "str" THEN Ok(Some(got.val.val.v))
    ELSE Err("unmodelled")

\* A field of type u8.
urf_u8(got) ==
    IF ~got.some THEN Err("yaml")
    ELSE IF ~got.val.ok THEN got.val
    ELSE IF got.val.val.t = "num" /\ got.val.val.v < 256 THEN Ok(got.val.val.v)
    ELSE Err("yaml")

\* The bare items of a block sequence of strings that follow place p.
RECURSIVE urf_bare_items(_, _)
urf_bare_items(items, p) ==
    IF p > Len(items) \/ ~items[p].dash \/ items[p].key # <<>> THEN Ok(<<>>)
    ELSE IF ~items[p].val.ok THEN items[p].val
    ELSE IF items[p].val.val.t # "str" THEN Err("unmodelled")
    ELSE IF ~urf_bare_items(items, p + 1).ok THEN urf_bare_items(items, p + 1)
    ELSE Ok(<<items[p].val.val.v>> \o urf_bare_items(items, p + 1).val)

\* A field of type Vec<String> among the items of a mapping.
urf_strings(items, key) ==
    LET at == {p \in 1..Len(items) : items[p].key = key /\ ~items[p].dash}
        p == CHOOSE q \in at : \A m \in at : q <= m
    IN  IF at = {} THEN Err("yaml")
        ELSE IF ~items[p].val.ok THEN items[p].val
        ELSE IF items[p].val.val.t = "seq"
        THEN Ok([j \in 1..Len(items[p].val.val.v) |-> items[p].val.val.v[j].v])
        ELSE IF items[p].val.val.t = "null" /\ urf_bare_items(items, p + 1) # Ok(<<>>)
        THEN urf_bare_items(items, p + 1)
        ELSE Err("yaml")

urf_metadata_of(name, description, tags, priority) ==
    IF ~name.ok THEN name
    ELSE IF ~description.ok THEN description
    ELSE IF ~tags.ok THEN tags
    ELSE IF ~priority.ok THEN priority
    ELSE Ok([name |-> name.val, description |-> description.val, tags |-> tags.val,
             priority |-> priority.val])

\* RuleMetadata from the items under the key metadata.
urf_metadata(items) ==
    IF items = <<>> THEN Err("yaml")
    ELSE urf_metadata_of(urf_string(urf_get(urf_mapping(items), NameKey)),
                         urf_option_string(urf_get(urf_mapping(items), DescriptionKey)),
                         urf_strings(items, TagsKey),
                         urf_u8(urf_get(urf_mapping(items), PriorityKey)))

urf_format(got) ==
    IF ~urf_string(got).ok THEN urf_string(got)
    ELSE IF \E f \in {"markdown", "plaintext", "code"} : variant_name(f) = urf_string(got).val
    THEN Ok(CHOOSE f \in {"markdown", "plaintext", "code"} : variant_name(f) = urf_string(got).val)
    ELSE Err("yaml")

urf_section_of(title, format, value) ==
    IF ~title.ok THEN title
    ELSE IF ~format.ok THEN format
    ELSE IF ~value.ok THEN value
    ELSE Ok([title |-> title.val, format |-> format.val, value |-> value.val])

\* The RuleContent items of a block sequence: every item that opens with a
\* dash starts one.
RECURSIVE urf_sections(_)
urf_sections(items) ==
    IF items = <<>> THEN Ok(<<>>)
    ELSE IF ~items[1].dash THEN Err("yaml")
    ELSE LET later == {q \in 2..Len(items) : items[q].dash}
             to == IF later = {} THEN Len(items) ELSE (CHOOSE q \in later : \A m \in later : q <= m) - 1
             section == urf_section_of(urf_string(urf_get(SubSeq(items, 1, to), TitleKey)),
                                       urf_format(urf_get(SubSeq(items, 1, to), FormatKey)),
                                       urf_string(urf_get(SubSeq(items, 1, to), ValueKey)))
             rest == urf_sections(SubSeq(items, to + 1, Len(items)))
         IN  IF ~section.ok THEN section
             ELSE IF ~rest.ok THEN rest
             ELSE Ok(<<section.val>> \o rest.val)

\* A field of type Vec<RuleContent>.
urf_content(items, at) ==
    IF at = {} THEN Err("yaml")
    ELSE IF ~items[CHOOSE p \in at : TRUE].val.ok THEN items[CHOOSE p \in at : TRUE].val
    ELSE IF items[CHOOSE p \in at : TRUE].val.val.t = "seq"
    THEN (IF items[CHOOSE p \in at : TRUE].val.val.v = <<>> THEN Ok(<<>>) ELSE Err("yaml"))
    ELSE IF items[CHOOSE p \in at : TRUE].val.val.t = "null"
            /\ urf_children(items, CHOOSE p \in at : TRUE) # <<>>
    THEN urf_sections(urf_children(items, CHOOSE p \in at : TRUE))
    ELSE Err("yaml")

\* references and conditions: the empty sequence is read, a filled one is
\* outside the part of YAML that is read here.
urf_empty_sequence(items, at) ==
    IF at = {} THEN Err("yaml")
    ELSE IF items[CHOOSE p \in at : TRUE].val = Ok(YSeq(<<>>)) THEN Ok(<<>>)
    ELSE Err("unmodelled")

OverrideModes == {"always", "intelligent", "specific_files", "manual"}

\* tool_overrides: the empty mapping, or the two Cursor options.
urf_tool_overrides(items, at) ==
    IF at = {} THEN Err("yaml")
    ELSE IF items[CHOOSE p \in at : TRUE].val = Ok(YMap(<<>>)) THEN Ok(NoOverrides)
    ELSE LET under == urf_children(items, CHOOSE p \in at : TRUE)
         IN  IF /\ Len(under) = 3
                /\ under[1].key = CursorKey /\ under[1].val = Ok(YNull)
                /\ under[2].key = ApplyModeKey /\ under[2].val.ok /\ under[2].val.val.t = "str"
                /\ \E m \in OverrideModes : variant_name(m) = under[2].val.val.v
                /\ under[3].key = AutoApplyKey /\ under[3].val.ok /\ under[3].val.val.t = "bool"
             THEN Ok([cursor |-> [apply_mode |-> JString(CHOOSE m \in OverrideModes :
                                                             variant_name(m) = under[2].val.val.v),
                                  auto_apply |-> JBool(under[3].val.val.v)]])
             ELSE Err("unmodelled")

urf_rule_of(id, version, metadata, content, references, conditions, tool_overrides) ==
    IF ~id.ok THEN id
    ELSE IF ~version.ok THEN version
    ELSE IF ~metadata.ok THEN metadata
    ELSE IF ~content.ok THEN content
    ELSE IF ~references.ok THEN references
    ELSE IF ~conditions.ok THEN conditions
    ELSE IF ~tool_overrides.ok THEN tool_overrides
    ELSE Ok([id |-> id.val, version |-> version.val, metadata |-> metadata.val,
             content |-> content.val, references |-> references.val,
             conditions |-> conditions.val, tool_overrides |-> tool_overrides.val])

urf_from_items(items) ==
    IF \E p \in 1..Len(items) : items[p].ind = 0 /\ ~items[p].dash /\ Cardinality(urf_top(items, items[p].key)) > 1
    THEN Err("yaml")
    ELSE IF urf_top(items, MetadataKey) = {} THEN Err("yaml")
    ELSE urf_rule_of(urf_string(urf_get(SelectSeq(items, LAMBDA it : it.ind = 0 /\ ~it.dash), IdKey)),
                     urf_string(urf_get(SelectSeq(items, LAMBDA it : it.ind = 0 /\ ~it.dash), VersionKey)),
                     urf_metadata(urf_children(items, CHOOSE p \in urf_top(items, MetadataKey) : TRUE)),
                     urf_content(items, urf_top(items, ContentKey)),
                     urf_empty_sequence(items, urf_top(items, ReferencesKey)),
                     urf_empty_sequence(items, urf_top(items, ConditionsKey)),
                     urf_tool_overrides(items, urf_top(items, ToolOverridesKey)))

\* serde_yaml::from_str(&content) for a UniversalRule.
urf_from_str(content) == urf_from_items(urf_scan(lines(content), 1, <<>>))

(***************************************************************************)
(* src/cli/commands/sync.rs: update_yaml_field                             *)
(***************************************************************************)
\* The first place at or after i that holds no whitespace, Len(s) + 1 if none.
RECURSIVE skip_whitespace(_, _)
skip_whitespace(s, i) ==
    IF i <= Len(s) /\ is_whitespace(s[i]) THEN skip_whitespace(s, i + 1) ELSE i

\* The first place of the run of whitespace that ends just before i.
RECURSIVE whitespace_run_start(_, _)
whitespace_run_start(s, i) ==
    IF i > 1 /\ is_whitespace(s[i - 1]) THEN whitespace_run_start(s, i - 1) ELSE i

\* The last place of the run of characters other than "\n" that starts at i.
RECURSIVE line_end(_, _)
line_end(s, i) == IF i < Len(s) /\ s[i + 1] # "\n" THEN line_end(s, i + 1) ELSE i

\* The match of (\s*field\s*:\s*)([^\n]+) whose field name stands at q, if
\* there is one: the second \s* is greedy and gives characters back only
\* where the text ends, until one that is not "\n" is left for group 2.
field_match_at(s, field, q) ==
    LET colon == skip_whitespace(s, q + Len(field))
        after == skip_whitespace(s, colon + 1)
        given_back == {v \in (colon + 1)..Len(s) : s[v] # "\n"}
        value_start == IF after <= Len(s) THEN after
                       ELSE CHOOSE v \in given_back : \A w \in given_back : w <= v
    IN  IF colon > Len(s) \/ s[colon] # ":" THEN None
        ELSE IF after > Len(s) /\ given_back = {} THEN None
        ELSE Some([start |-> whitespace_run_start(s, q),
                   value_start |-> value_start,
                   end |-> line_end(s, value_start)])

\* The leftmost match in the text, if there is one.
field_match(s, field) ==
    LET found == {q \in Occurrences(s, field) : field_match_at(s, field, q).some}
    IN  IF found = {} THEN None
        ELSE field_match_at(s, field, CHOOSE q \in found : \A r \in found : q <= r)

\* Characters of a group name in a replacement: [0-9A-Za-z_].
is_group_name_char(c) == is_ascii_lowercase(c) \/ is_ascii_uppercase(c) \/ is_ascii_digit(c) \/ c = "_"

\* The number of leading characters of s that can belong to a group name.
RECURSIVE group_name_len(_)
group_name_len(s) ==
    IF s # <<>> /\ is_group_name_char(Head(s)) THEN 1 + group_name_len(Tail(s)) ELSE 0

\* The value of a name made of digits.
RECURSIVE digits_value(_)
digits_value(name) ==
    IF name = <<>> THEN 0
    ELSE 10 * digits_value(SubSeq(name, 1, Len(name) - 1))
         + (CHOOSE d \in 0..9 : DigitSeq[d + 1] = name[Len(name)])

\* The text of a group reference: groups is <<whole match, group 1, group 2>>;
\* a number or a name that is no group of the pattern gives the empty text.
group_text(name, groups) ==
    IF (\A i \in 1..Len(name) : is_ascii_digit(name[i])) /\ digits_value(name) < Len(groups)
    THEN groups[digits_value(name) + 1]
    ELSE <<>>

\* Captures::expand: $name and ${name} are replaced by the group's text,
\* where name is the longest run of name characters, and $$ by "$".
RECURSIVE expand(_, _)
expand(template, groups) ==
    IF template = <<>> THEN <<>>
    ELSE IF Head(template) # "$" THEN <<Head(template)>> \o expand(Tail(template), groups)
    ELSE IF Len(template) >= 2 /\ template[2] = "$"
    THEN <<"$">> \o expand(SubSeq(template, 3, Len(template)), groups)
    ELSE IF Len(template) >= 2 /\ template[2] = "{"
    THEN LET closing == {i \in 3..Len(template) : template[i] = "}"}
             close == CHOOSE i \in closing : \A j \in closing : i <= j
         IN  IF closing = {} THEN <<"$">> \o expand(Tail(template), groups)
             ELSE group_text(SubSeq(template, 3, close - 1), groups)
                  \o expand(SubSeq(template, close + 1, Len(template)), groups)
    ELSE IF group_name_len(Tail(template)) = 0
    THEN <<"$">> \o expand(Tail(template), groups)
    ELSE group_text(SubSeq(template, 2, 1 + group_name_len(Tail(template))), groups)
         \o expand(SubSeq(template, 2 + group_name_len(Tail(template)), Len(template)), groups)

\* The field path names a metadata field: the text after "metadata.".
metadata_field(field_path) ==
    LET field_parts == split(field_path, ".")
    IN  IF Len(field_parts) = 2 /\ field_parts[1] = MetadataKey THEN Some(field_parts[2]) ELSE None

\* regex.replace(content, format!("$1{}", new_value)): the first match is
\* replaced, and a text without a match is returned as it is.
replace_field(content, found, new_value) ==
    IF ~found.some THEN content
    ELSE SubSeq(content, 1, found.val.start - 1)
         \o expand(<<"$", "1">> \o new_value,
                   <<SubSeq(content, found.val.start, found.val.end),
                     SubSeq(content, found.val.start, found.val.value_start - 1),
                     SubSeq(content, found.val.value_start, found.val.end)>>)
         \o SubSeq(content, found.val.end + 1, Len(content))

update_yaml_field(content, field_path, new_value) ==
    IF ~metadata_field(field_path).some THEN content
    ELSE replace_field(content, field_match(content, metadata_field(field_path).val), new_value)

(***************************************************************************)
(* src/store/file_store.rs.  A file of the rules directory holds its text  *)
(* and what serde_yaml reads from that text.                               *)
(***************************************************************************)
StoredFile(file_text, parsed) == [text |-> file_text, parsed |-> parsed]

\* A file of the rules directory with the given text, as load_rule reads it.
reloaded_file(file_text) == StoredFile(file_text, urf_from_str(file_text))

\* FileStore::load_rule: none when the file does not exist.
load_rule(files, id) ==
    IF id \notin DOMAIN files THEN Ok(None)
    ELSE IF ~files[id].parsed.ok THEN files[id].parsed
    ELSE Ok(Some(files[id].parsed.val))

\* fs::write to the path of a rule id.
write_rule_file(files, id, file) ==
    [i \in DOMAIN files \cup {id} |-> IF i = id THEN file ELSE files[i]]

\* FileStore::save_rule: the serialized rule goes to the path of its own id.
save_rule(files, rule) ==
    IF ~rule_to_string(rule).ok THEN Err("unmodelled")
    ELSE Ok(write_rule_file(files, rule.id, StoredFile(rule_to_string(rule).val, Ok(rule))))

(***************************************************************************)
(* src/cli/commands/sync.rs                                                *)
(***************************************************************************)
\* A plausible slip: every pair of rules is taken as changed.
rules_never_equivalent(rule1, rule2) == FALSE

rules_are_equivalent(rule1, rule2) ==
    /\ rule1.metadata.name = rule2.metadata.name
    /\ rule1.metadata.description = rule2.metadata.description
    /\ rule1.content = rule2.content
    /\ rule1.references = rule2.references
    /\ rule1.conditions = rule2.conditions

MetadataPath(field) == MetadataKey \o <<".">> \o field

quoted(s) == Quote \o s \o Quote

\* The value written for a changed description.
description_value(description) ==
    IF ~description.some THEN NullWord
    ELSE IF contains(description.val, <<"\n">>)
    THEN <<"|", "\n">>
         \o join([i \in 1..Len(lines(description.val)) |->
                     <<" ", " ", " ", " ">> \o lines(description.val)[i]], <<"\n">>)
    ELSE quoted(description.val)

\* The value written for changed tags.
tags_value(tags) ==
    <<"[">> \o join([i \in 1..Len(tags) |-> quoted(tags[i])], <<",", " ">>) \o <<"]">>

\* The original text with the changed metadata fields patched, one after
\* the other: name, description, tags, priority.
patch_name(content, existing_rule, updated_rule) ==
    IF existing_rule.metadata.name # updated_rule.metadata.name
    THEN update_yaml_field(content, MetadataPath(NameKey), quoted(updated_rule.metadata.name))
    ELSE content

patch_description(content, existing_rule, updated_rule) ==
    IF existing_rule.metadata.description # updated_rule.metadata.description
    THEN update_yaml_field(content, MetadataPath(DescriptionKey),
                           description_value(updated_rule.metadata.description))
    ELSE content

patch_tags(content, existing_rule, updated_rule) ==
    IF existing_rule.metadata.tags # updated_rule.metadata.tags
    THEN update_yaml_field(content, MetadataPath(TagsKey), tags_value(updated_rule.metadata.tags))
    ELSE content

patch_priority(content, existing_rule, updated_rule) ==
    IF existing_rule.metadata.priority # updated_rule.metadata.priority
    THEN update_yaml_field(content, MetadataPath(PriorityKey),
                           format_u64(updated_rule.metadata.priority))
    ELSE content

patch_metadata(original_content, existing_rule, updated_rule) ==
    patch_priority(
        patch_tags(
            patch_description(
                patch_name(original_content, existing_rule, updated_rule),
                existing_rule, updated_rule),
            existing_rule, updated_rule),
        existing_rule, updated_rule)

is_alphabetic(c) == is_alphanumeric(c) /\ ~is_ascii_digit(c)

\* The start of a top-level section: a line that begins with a letter and
\* holds a colon.
is_top_level_key(line) ==
    /\ line # <<>>
    /\ is_alphabetic(line[1])
    /\ contains(line, <<":">>)
    /\ ~starts_with(line, <<" ">>)
    /\ ~starts_with(line, <<"\t">>)

\* The first place at or after i of the start of a top-level section,
\* Len(original_lines) + 1 if none.
RECURSIVE next_top_level(_, _)
next_top_level(original_lines, i) ==
    IF i <= Len(original_lines) /\ ~is_top_level_key(original_lines[i])
    THEN next_top_level(original_lines, i + 1)
    ELSE i

\* The loop of fallback_to_complete_update from line i on: every line is
\* copied, and a line that reads "content:" is followed by the new content
\* in place of the lines up to the next top-level section.
RECURSIVE fallback_lines(_, _, _)
fallback_lines(original_lines, i, new_content_lines) ==
    IF i > Len(original_lines) THEN <<>>
    ELSE IF trim(original_lines[i]) = ContentKey \o <<":">>
    THEN <<original_lines[i]>> \o new_content_lines
         \o fallback_lines(original_lines, next_top_level(original_lines, i + 1), new_content_lines)
    ELSE <<original_lines[i]>> \o fallback_lines(original_lines, i + 1, new_content_lines)

\* A plausible slip: the whole rule is serialized in place of the file.
fallback_rewrite_whole_file(original_content, updated_rule) == rule_to_string(updated_rule)

\* The text fallback_to_complete_update writes.
fallback_to_complete_update(original_content, updated_rule) ==
    IF ~content_to_string(updated_rule.content).ok
       /\ \E i \in 1..Len(lines(original_content)) :
              trim(lines(original_content)[i]) = ContentKey \o <<":">>
    THEN Err("unmodelled")
    ELSE Ok(join(fallback_lines(lines(original_content), 1,
                                lines(content_to_string(updated_rule.content).val)),
                 <<"\n">>))

\* The text update_urf_file_selectively writes in place of original_content.
updated_urf_text(original_content, existing_rule, updated_rule) ==
    IF \/ existing_rule.content # updated_rule.content
       \/ existing_rule.references # updated_rule.references
       \/ existing_rule.conditions # updated_rule.conditions
    THEN fallback_to_complete_update(original_content, updated_rule)
    ELSE Ok(patch_metadata(original_content, existing_rule, updated_rule))

update_urf_file_selectively(files, rule_id, existing_rule, updated_rule) ==
    IF ~updated_urf_text(files[rule_id].text, existing_rule, updated_rule).ok
    THEN updated_urf_text(files[rule_id].text, existing_rule, updated_rule)
    ELSE Ok(write_rule_file(files, rule_id,
                            reloaded_file(updated_urf_text(files[rule_id].text, existing_rule,
                                                           updated_rule).val)))

\* get_converter(tool_name), then convert_from_tool_format(content); now
\* is the clock the identity resolver reads when nothing else names the rule.
convert_from_tool_format(tool, content, now) ==
    CASE tool = "cursor" -> cursor_convert_from_tool_format(content)
      [] tool = "cline" -> cline_convert_from_tool_format(content)
      [] tool = "claude-code" -> claude_code_convert_from_tool_format(content, now)
      [] tool = "goose" -> goose_convert_from_tool_format(content, now)

SyncOutcome(kind, rule_id, files) == [result |-> Ok([kind |-> kind, rule_id |-> rule_id]), files |-> files]

SyncError(error, files) == [result |-> error, files |-> files]

\* A plausible slip: the id the converter derived is kept.
keep_converted_id(converted_rule, rule_id) == converted_rule

\* converted_rule.id = rule_id.clone()
override_rule_id(converted_rule, rule_id) == [converted_rule EXCEPT !.id = rule_id]

\* The fields a tool format does not hold are taken from the stored rule.
preserve_stored_metadata(converted_rule, existing) ==
    [converted_rule EXCEPT !.metadata.tags = existing.metadata.tags,
                           !.metadata.priority = existing.metadata.priority,
                           !.version = existing.version,
                           !.tool_overrides = existing.tool_overrides]

\* A plausible slip: the guard on dry_run is left out.
write_always(dry_run) == TRUE

\* if !dry_run
write_allowed(dry_run) == ~dry_run

\* The written rules directory, or the error of the write.
outcome_of_write(kind, rule_id, written, files) ==
    IF written.ok THEN SyncOutcome(kind, rule_id, written.val) ELSE SyncError(written, files)

\* The branch of a stored rule: converted_rule holds the preserved fields.
sync_existing(files, rule_id, existing, converted_rule, dry_run) ==
    IF rules_are_equivalent(existing, converted_rule) THEN SyncOutcome("NoChange", rule_id, files)
    ELSE IF write_allowed(dry_run)
    THEN outcome_of_write("Updated", rule_id,
                          update_urf_file_selectively(files, rule_id, existing, converted_rule), files)
    ELSE SyncOutcome("Updated", rule_id, files)

\* The branch of no stored rule.
sync_new(files, rule_id, converted_rule, dry_run) ==
    IF write_allowed(dry_run)
    THEN outcome_of_write("Created", rule_id, save_rule(files, converted_rule), files)
    ELSE SyncOutcome("Created", rule_id, files)

\* sync_rule_from_file after the file name, the stored rule and the
\* deployed file have been read.
sync_converted(files, rule_id, existing_rule, converted, dry_run) ==
    IF ~existing_rule.ok THEN SyncError(existing_rule, files)
    ELSE IF ~converted.ok THEN SyncError(converted, files)
    ELSE IF existing_rule.val.some
    THEN sync_existing(files, rule_id, existing_rule.val.val,
                       preserve_stored_metadata(override_rule_id(converted.val, rule_id),
                                                existing_rule.val.val),
                       dry_run)
    ELSE sync_new(files, rule_id, override_rule_id(converted.val, rule_id), dry_run)

sync_rule_from_file(files, tool, file_path, content, dry_run, now) ==
    IF ~file_stem(file_path).some THEN SyncError(Err("Invalid filename"), files)
    ELSE sync_converted(files, file_stem(file_path).val,
                        load_rule(files, file_stem(file_path).val),
                        convert_from_tool_format(tool, content, now), dry_run)

(***************************************************************************)
(* Stored rule files                                                       *)
(*                                                                         *)
(* A stored file is either what save_rule wrote or a file in the layout    *)
(* of the skeleton of src/templates/builtin.rs that its author filled in:  *)
(* comment lines, blank lines, double-quoted names, flow sequences and     *)
(* sections indented under content.  serde_yaml reads the same rule from   *)
(* both.                                                                   *)
(***************************************************************************)
IdComment == <<"#", " ", "U", "n", "i", "q", "u", "e", " ", "i", "d", "e", "n", "t", "i", "f", "i", "e", "r", " ", "f", "o", "r", " ", "t", "h", "i", "s", " ", "r", "u", "l", "e", " ", "(", "a", "u", "t", "o", "-", "f", "i", "l", "l", "e", "d", " ", "f", "r", "o", "m", " ", "f", "i", "l", "e", "n", "a", "m", "e", ")">>

\* The comment over the description of the skeleton.
DescriptionComment == <<" ", " ", "#", " ", "B", "r", "i", "e", "f", " ", "d", "e", "s", "c", "r", "i", "p", "t", "i", "o", "n", " ", "-", " ", "s", "h", "o", "w", "s", " ", "u", "p", " ", "i", "n", " ", "C", "u", "r", "s", "o", "r", " ", "f", "r", "o", "n", "t", "m", "a", "t", "t", "e", "r", " ", "a", "n", "d", " ", "t", "o", "o", "l", " ", "d", "e", "s", "c", "r", "i", "p", "t", "i", "o", "n", "s">>

\* The comment an author wrote instead, naming the key it explains.
DescriptionKeyComment == <<" ", " ", "#", " ", "d", "e", "s", "c", "r", "i", "p", "t", "i", "o", "n", ":", " ", "s", "h", "o", "w", "s", " ", "u", "p", " ", "i", "n", " ", "C", "u", "r", "s", "o", "r", " ", "f", "r", "o", "n", "t", "m", "a", "t", "t", "e", "r">>

ContentComment == <<"#", " ", "C", "o", "n", "t", "e", "n", "t", " ", "s", "e", "c", "t", "i", "o", "n", "s", " ", "-", " ", "t", "h", "e", "s", "e", " ", "b", "e", "c", "o", "m", "e", " ", "H", "2", " ", "h", "e", "a", "d", "i", "n", "g", "s", " ", "i", "n", " ", "e", "x", "p", "o", "r", "t", "e", "d", " ", "f", "i", "l", "e", "s">>

ReferencesLine == <<"r", "e", "f", "e", "r", "e", "n", "c", "e", "s", ":", " ", "[", "]", " ", " ", " ", " ", " ", " ", " ", " ", " ", " ", " ", " ", " ", "#", " ", "E", "x", "a", "m", "p", "l", "e", ":", " ", "[", "@", "R", "E", "A", "D", "M", "E", ".", "m", "d", ",", " ", "@", "d", "o", "c", "s", "/", "s", "t", "y", "l", "e", "-", "g", "u", "i", "d", "e", ".", "m", "d", "]">>

ConditionsLine == <<"c", "o", "n", "d", "i", "t", "i", "o", "n", "s", ":", " ", "[", "]", " ", " ", " ", " ", " ", " ", " ", " ", " ", " ", " ", " ", " ", "#", " ", "E", "x", "a", "m", "p", "l", "e", ":", " ", "[", "t", "y", "p", "e", ":", " ", "f", "i", "l", "e", "_", "p", "a", "t", "t", "e", "r", "n", ",", " ", "v", "a", "l", "u", "e", ":", " ", "\"", "s", "r", "c", "/", "*", "*", "/", "*", ".", "t", "s", "\"", "]">>

OverridesLine == <<"t", "o", "o", "l", "_", "o", "v", "e", "r", "r", "i", "d", "e", "s", ":", " ", "{", "}">>

skeleton_description(description) ==
    IF description.some THEN quoted(description.val) ELSE NullWord

RECURSIVE skeleton_value_lines(_)
skeleton_value_lines(value_lines) ==
    IF value_lines = <<>> THEN <<>>
    ELSE <<repeat(<<" ">>, 6) \o Head(value_lines)>> \o skeleton_value_lines(Tail(value_lines))

RECURSIVE skeleton_sections(_)
skeleton_sections(content) ==
    IF content = <<>> THEN <<>>
    ELSE << <<" ", " ", "-", " ", "t", "i", "t", "l", "e", ":", " ">> \o quoted(Head(content).title),
            <<" ", " ", " ", " ", "f", "o", "r", "m", "a", "t", ":", " ">> \o variant_name(Head(content).format) \o <<" ", " ", " ", " ", " ", " ", " ", " ", "#", " ", "O", "p", "t", "i", "o", "n", "s", ":", " ", "m", "a", "r", "k", "d", "o", "w", "n", ",", " ", "p", "l", "a", "i", "n", "t", "e", "x", "t", ",", " ", "c", "o", "d", "e">>,
            <<" ", " ", " ", " ", "v", "a", "l", "u", "e", ":", " ", "|", "-">> >>
         \o skeleton_value_lines(split(Head(content).value, "\n"))
         \o skeleton_sections(Tail(content))

\* The lines of a filled-in skeleton of a rule without references,
\* conditions and overrides, whose strings need no escape in double quotes.
skeleton_lines(rule, description_comment) ==
    << IdComment,
       <<"i", "d", ":", " ">> \o rule.id,
       <<>>,
       <<"v", "e", "r", "s", "i", "o", "n", ":", " ">> \o rule.version,
       <<>>,
       <<"m", "e", "t", "a", "d", "a", "t", "a", ":">>,
       <<" ", " ", "n", "a", "m", "e", ":", " ">> \o quoted(rule.metadata.name),
       <<>>,
       description_comment,
       <<" ", " ", "d", "e", "s", "c", "r", "i", "p", "t", "i", "o", "n", ":", " ">> \o skeleton_description(rule.metadata.description),
       <<>>,
       <<" ", " ", "t", "a", "g", "s", ":", " ">> \o tags_value(rule.metadata.tags),
       <<" ", " ", "p", "r", "i", "o", "r", "i", "t", "y", ":", " ">> \o format_u64(rule.metadata.priority),
       <<>>,
       ContentComment,
       <<"c", "o", "n", "t", "e", "n", "t", ":">> >>
    \o skeleton_sections(rule.content)
    \o << <<>>, ReferencesLine, <<>>, ConditionsLine, <<>>, OverridesLine >>

skeleton_file(rule, description_comment) ==
    StoredFile(join(skeleton_lines(rule, description_comment), <<"\n">>) \o <<"\n">>, Ok(rule))

\* The file save_rule writes.
written_file(rule) == StoredFile(rule_to_string(rule).val, Ok(rule))

(***************************************************************************)
(* A sync pass: run of src/cli/commands/sync.rs over the deployed files of *)
(* one tool, against a rules directory.                                    *)
(***************************************************************************)
convert_to_tool_format(tool, rule) ==
    CASE tool = "cursor" -> cursor_convert_to_tool_format(rule)
      [] tool = "cline" -> cline_convert_to_tool_format(rule)
      [] tool = "claude-code" -> claude_code_convert_to_tool_format(rule)
      [] tool = "goose" -> goose_convert_to_tool_format(rule)

\* get_deployment_path joined with a file name that find_deployed_files
\* keeps: the path itself for Claude Code, a file with the extension of
\* the converter for the others.
deployed_path(tool, stem) ==
    CASE tool = "cursor" -> <<".", "c", "u", "r", "s", "o", "r", "/", "r", "u", "l", "e", "s", "/">> \o stem \o <<".", "m", "d", "c">>
      [] tool = "cline" -> <<".", "c", "l", "i", "n", "e", "r", "u", "l", "e", "s", "/">> \o stem \o <<".", "m", "d">>
      [] tool = "claude-code" -> <<"C", "L", "A", "U", "D", "E", ".", "m", "d">>
      [] tool = "goose" -> stem \o <<".", "g", "o", "o", "s", "e", "h", "i", "n", "t", "s">>

SyncStem == <<"a", "p", "i">>

SecondStem == <<"n", "e", "w">>

\* The id the deployed rules carry: never the stem of their file.
DeployedId == <<"z", "e", "d">>

StoredVersion == <<"1", ".", "2", ".", "0">>

\* A priority other than the one the converters give.
StoredPriority == DefaultPriority + 2

OldDescription == <<"o", "l", "d">>

NewDescription == <<"n", "e", "w", " ", "w", "o", "r", "d", "s">>

StoredName == <<"A", "p", "i">>

SyncSection == Section(<<"U", "s", "e">>, <<"d", "o", " ", "x">>)

AddedSection == Section(<<"M", "o", "r", "e">>, <<"a", "n", "d", " ", "y">>)

\* The rule a stored file holds under an id.
stored_rule(id, description, content, tool_overrides) ==
    UniversalRule(id, StoredVersion, StoredName, description, <<Tag1>>, StoredPriority,
                  content, <<>>, <<>>, tool_overrides)

\* The files the rules directory may hold under an id: written by save_rule
\* (one of them with no section, one with a Cursor override) and filled-in
\* skeletons, with and without a description.
StoredFiles(id) ==
    { written_file(stored_rule(id, Some(OldDescription), <<SyncSection>>, NoOverrides)),
      written_file(stored_rule(id, None, <<SyncSection>>,
                               [cursor |-> [apply_mode |-> JString("manual"), auto_apply |-> JBool(FALSE)]])),
      written_file(stored_rule(id, Some(OldDescription), <<>>, NoOverrides)),
      skeleton_file(stored_rule(id, Some(OldDescription), <<SyncSection>>, NoOverrides), DescriptionComment),
      skeleton_file(stored_rule(id, None, <<SyncSection>>, NoOverrides), DescriptionComment),
      skeleton_file(stored_rule(id, Some(OldDescription), <<SyncSection>>, NoOverrides), DescriptionKeyComment) }

\* Rules directories: empty, or holding a rule under the id the deployed
\* rules carry, a rule under the stem of the first deployed file, or both.
Stores(stem) ==
    LET other == written_file(stored_rule(DeployedId, None, <<SyncSection>>, NoOverrides))
    IN  {EmptyStore, [id \in {DeployedId} |-> other]}
        \cup {[id \in {stem} |-> file] : file \in StoredFiles(stem)}
        \cup {[id \in {stem, DeployedId} |-> IF id = stem THEN file ELSE other] : file \in StoredFiles(stem)}

\* The rules the deployed files were exported from and then edited to.
DeployedRules ==
    { UniversalRule(DeployedId, DefaultVersion, name, description, <<>>, DefaultPriority,
                    content, <<>>, <<>>, NoOverrides) :
        name \in {StoredName, <<"A", "p", "i", " ", "v", "2">>},
        description \in {Some(OldDescription), Some(NewDescription), None},
        content \in {<<SyncSection>>, <<SyncSection, AddedSection>>} }

\* A deployed file that opens a frontmatter and never closes it.
UnclosedFrontmatter == <<"-", "-", "-", "\n", "d", "e", "s", "c", "r", "i", "p", "t", "i", "o", "n", ":", " ", "o", "l", "d", "\n", "#", " ", "A", "p", "i", "\n">>

DeployedTexts(tool) == {convert_to_tool_format(tool, rule) : rule \in DeployedRules} \cup {UnclosedFrontmatter}

DeployedFile(path, content) == [path |-> path, content |-> content]

\* What find_deployed_files returns: one file, and for the tools that
\* deploy into a directory possibly a second one.
DeployedFileLists(tool) ==
    LET first == {<<DeployedFile(deployed_path(tool, SyncStem), content)>> : content \in DeployedTexts(tool)}
        second == DeployedFile(deployed_path(tool, SecondStem),
                               convert_to_tool_format(tool, CHOOSE rule \in DeployedRules :
                                   /\ rule.metadata.name = StoredName
                                   /\ rule.metadata.description = None
                                   /\ Len(rule.content) = 1))
    IN  first \cup (IF tool = "claude-code" THEN {} ELSE {Append(files, second) : files \in first})

SyncCalls ==
    UNION { [op : {"sync"}, dry_run : BOOLEAN, rule : {None, Some(SyncStem)}, tool : {tool},
             files : DeployedFileLists(tool), stored : Stores(file_stem(deployed_path(tool, SyncStem)).val),
             now : ImportTimes] : tool \in Tools }

InitSync ==
    /\ call \in SyncCalls
    /\ pc = 1
    /\ text = <<>>
    /\ result = <<>>
    /\ store = call.stored

\* The test of run on the rule argument: the file is passed over when a
\* rule was named and the stem of the file is not that name.
passes_rule_filter(rule, file_path) ==
    rule.some => (file_stem(file_path).some /\ file_stem(file_path).val = rule.val)

Synced(file_path, outcome) == [path |-> file_path, outcome |-> outcome]

SyncStep(file, synced) ==
    /\ result' = Append(result, Synced(file.path, synced.result))
    /\ store' = synced.files
    /\ pc' = pc + 1
    /\ UNCHANGED <<call, text>>

\* One turn of the loop of run over the deployed files.
SyncRuleFromFile ==
    /\ call.op = "sync"
    /\ pc <= Len(call.files)
    /\ passes_rule_filter(call.rule, call.files[pc].path)
    /\ SyncStep(call.files[pc],
                sync_rule_from_file(store, call.tool, call.files[pc].path, call.files[pc].content,
                                    call.dry_run, call.now))

SkipFile ==
    /\ call.op = "sync"
    /\ pc <= Len(call.files)
    /\ ~passes_rule_filter(call.rule, call.files[pc].path)
    /\ pc' = pc + 1
    /\ UNCHANGED <<call, text, result, store>>

NextSync == SyncRuleFromFile \/ SkipFile

SpecSync == InitSync /\ [][NextSync]_vars

\* Every string the pass writes is one the model of serde_yaml covers.
SyncModelled == \A k \in 1..Len(result) : result[k].outcome.ok \/ result[k].outcome.err # "unmodelled"

\* The stem of the k-th file the pass has handled.
SyncedStem(k) == file_stem(result[k].path).val

SyncedStems == {SyncedStem(k) : k \in 1..Len(result)}

SyncedAs(k, kind) == result[k].outcome.ok /\ result[k].outcome.val.kind = kind

\* C12: sync works under the filename stem of the deployed file.  Every
\* outcome names the stem as the rule id; a file is reported Created exactly
\* when the rules directory held nothing under the stem, and otherwise it was
\* compared with the rule stored under the stem; a created rule is stored
\* under the stem and carries it as its id; and no stored file under any
\* other id is added or changed, whatever id the deployed text carries.
C12_SyncUsesFileStem ==
    /\ \A k \in 1..Len(result) :
          /\ result[k].outcome.ok =>
                /\ result[k].outcome.val.rule_id = SyncedStem(k)
                /\ SyncedAs(k, "Created") <=> SyncedStem(k) \notin DOMAIN call.stored
          /\ (SyncedAs(k, "Created") /\ ~call.dry_run) =>
                /\ SyncedStem(k) \in DOMAIN store
                /\ store[SyncedStem(k)].parsed.ok
                /\ store[SyncedStem(k)].parsed.val.id = SyncedStem(k)
    /\ DOMAIN store \subseteq DOMAIN call.stored \cup SyncedStems
    /\ \A id \in DOMAIN call.stored : id \notin SyncedStems => store[id] = call.stored[id]

\* A deployed file whose text carries another id, under which a rule is
\* stored, has been synced into a new rule under its stem.
C12_Witness ==
    /\ Len(result) >= 1
    /\ SyncedAs(1, "Created")
    /\ ~call.dry_run
    /\ extract_embedded_rule_id(call.files[1].content) = Some(DeployedId)
    /\ DeployedId \in DOMAIN store
    /\ store[DeployedId] = call.stored[DeployedId]
    /\ store[SyncedStem(1)].parsed.val.id = SyncedStem(1)

\* The rule the converter of the pass reads from the k-th handled file.
ImportedFrom(k) == convert_from_tool_format(call.tool, call.files[k].content, call.now)

\* The rule the rules directory held under the stem of the k-th handled file.
StoredBefore(k) == call.stored[SyncedStem(k)].parsed

HandledStored(k) ==
    /\ SyncedStem(k) \in DOMAIN call.stored
    /\ StoredBefore(k).ok
    /\ ImportedFrom(k).ok

SameSyncedFields(k) ==
    /\ ImportedFrom(k).val.metadata.name = StoredBefore(k).val.metadata.name
    /\ ImportedFrom(k).val.metadata.description = StoredBefore(k).val.metadata.description
    /\ ImportedFrom(k).val.content = StoredBefore(k).val.content
    /\ ImportedFrom(k).val.references = StoredBefore(k).val.references
    /\ ImportedFrom(k).val.conditions = StoredBefore(k).val.conditions

\* C13: when the rule imported from a deployed file has the name,
\* description, content, references and conditions of the rule stored under
\* its stem, the file is reported NoChange and the stored file is left as it
\* was, whatever version, tags, priority and tool_overrides the stored rule has.
C13_EquivalentIsNoChange ==
    \A k \in 1..Len(result) :
        (HandledStored(k) /\ SameSyncedFields(k)) =>
            /\ SyncedAs(k, "NoChange")
            /\ store[SyncedStem(k)] = call.stored[SyncedStem(k)]

\* An unchanged deployed file has been synced, without dry_run, against a
\* stored rule whose version, tags, priority and tool_overrides are not the
\* ones the import gives.
C13_Witness ==
    /\ Len(result) >= 1
    /\ ~call.dry_run
    /\ HandledStored(1)
    /\ SameSyncedFields(1)
    /\ SyncedAs(1, "NoChange")
    /\ ImportedFrom(1).val.version # StoredBefore(1).val.version
    /\ ImportedFrom(1).val.metadata.tags # StoredBefore(1).val.metadata.tags
    /\ ImportedFrom(1).val.metadata.priority # StoredBefore(1).val.metadata.priority
    /\ ImportedFrom(1).val.tool_overrides # StoredBefore(1).val.tool_overrides
    /\ StoredBefore(1).val.tool_overrides # NoOverrides

\* The rule sync compares with the stored one: the imported rule with the
\* fields that only the stored rule holds.
MetadataOnlyChange(k) ==
    /\ HandledStored(k)
    /\ ~call.dry_run
    /\ ImportedFrom(k).val.content = StoredBefore(k).val.content
    /\ ImportedFrom(k).val.references = StoredBefore(k).val.references
    /\ ImportedFrom(k).val.conditions = StoredBefore(k).val.conditions

OnlyDescriptionChanged(k) ==
    /\ MetadataOnlyChange(k)
    /\ ImportedFrom(k).val.metadata.name = StoredBefore(k).val.metadata.name
    /\ ImportedFrom(k).val.metadata.description # StoredBefore(k).val.metadata.description

OnlyNameChanged(k) ==
    /\ MetadataOnlyChange(k)
    /\ ImportedFrom(k).val.metadata.name # StoredBefore(k).val.metadata.name
    /\ ImportedFrom(k).val.metadata.description = StoredBefore(k).val.metadata.description

\* The line of a stored file that holds a metadata field: the first line
\* that, after its indentation, starts with the key and a colon.
FieldLine(file_lines, key) ==
    CHOOSE i \in 1..Len(file_lines) :
        /\ starts_with(trim_start(file_lines[i]), key \o <<":">>)
        /\ \A j \in 1..(i - 1) : ~starts_with(trim_start(file_lines[j]), key \o <<":">>)

\* Two files differ in line i of the first alone: the lines before it and
\* the lines after it are the same, whatever stands in its place.
DiffersOnlyInLine(before, after, i) ==
    /\ Len(after) >= Len(before) - 1
    /\ SubSeq(after, 1, i - 1) = SubSeq(before, 1, i - 1)
    /\ SubSeq(after, Len(after) - (Len(before) - i) + 1, Len(after)) = SubSeq(before, i + 1, Len(before))

PatchedOnlyField(k, key) ==
    DiffersOnlyInLine(split(call.stored[SyncedStem(k)].text, "\n"),
                      split(store[SyncedStem(k)].text, "\n"),
                      FieldLine(split(call.stored[SyncedStem(k)].text, "\n"), key))

\* C14: when a deployed file differs from the stored rule in the
\* description alone, or in the name alone, the stored file sync rewrites
\* differs from the original in the line of that field alone: every line
\* before it and every line after it, comments and blank lines included, is
\* the same.
C14_MetadataPatchTouchesOneLine ==
    \A k \in 1..Len(result) :
        /\ OnlyDescriptionChanged(k) => PatchedOnlyField(k, DescriptionKey)
        /\ OnlyNameChanged(k) => PatchedOnlyField(k, NameKey)

\* The same, for the stored files in which no comment names the key.
C14_HoldsWithoutKeyComment ==
    \A k \in 1..Len(result) :
        (SyncedStem(k) \in DOMAIN call.stored
         /\ ~contains(call.stored[SyncedStem(k)].text, DescriptionKeyComment)) =>
            /\ OnlyDescriptionChanged(k) => PatchedOnlyField(k, DescriptionKey)
            /\ OnlyNameChanged(k) => PatchedOnlyField(k, NameKey)

StructuralChange(k) ==
    /\ HandledStored(k)
    /\ ~call.dry_run
    /\ \/ ImportedFrom(k).val.content # StoredBefore(k).val.content
       \/ ImportedFrom(k).val.references # StoredBefore(k).val.references
       \/ ImportedFrom(k).val.conditions # StoredBefore(k).val.conditions

\* The line of a stored file that holds the content key.
ContentKeyLine(file_lines) ==
    CHOOSE i \in 1..Len(file_lines) :
        /\ starts_with(file_lines[i], ContentKey \o <<":">>)
        /\ \A j \in 1..(i - 1) : ~starts_with(file_lines[j], ContentKey \o <<":">>)

StartsKey(line) == line # <<>> /\ is_alphabetic(line[1])

\* The line of the next top-level key after line i, one past the end if
\* there is none.
KeyLineAfter(file_lines, i) ==
    CHOOSE j \in (i + 1)..(Len(file_lines) + 1) :
        /\ j <= Len(file_lines) => StartsKey(file_lines[j])
        /\ \A h \in (i + 1)..(j - 1) : ~StartsKey(file_lines[h])

\* after is before with new_block in place of the lines between the
\* content key at line c and the next key at line n.
BlockReplaced(before, after, c, n, new_block) ==
    /\ Len(after) = c + Len(new_block) + (Len(before) - n + 1)
    /\ SubSeq(after, 1, c - 1) = SubSeq(before, 1, c - 1)
    /\ SubSeq(after, c + 1, c + Len(new_block)) = new_block
    /\ SubSeq(after, c + Len(new_block) + 1, Len(after)) = SubSeq(before, n, Len(before))

ContentBlockReplaced(before, after, new_block) ==
    BlockReplaced(before, after, ContentKeyLine(before),
                  KeyLineAfter(before, ContentKeyLine(before)), new_block)

RewrittenWithContentOf(k) ==
    ContentBlockReplaced(lines(call.stored[SyncedStem(k)].text),
                         lines(store[SyncedStem(k)].text),
                         lines(content_to_string(ImportedFrom(k).val.content).val))

\* C15: when the content, references or conditions of a deployed file
\* differ from the stored rule, the stored file sync rewrites keeps every
\* line before the content key and every line from the next top-level key
\* on, and holds the serialized content of the deployed file between them.
C15_StructuralChangeReplacesContentBlock ==
    \A k \in 1..Len(result) : StructuralChange(k) => RewrittenWithContentOf(k)

\* The same, for the stored rules that have a section.
C15_HoldsForStoredSections ==
    \A k \in 1..Len(result) :
        (StructuralChange(k) /\ StoredBefore(k).val.content # <<>>) => RewrittenWithContentOf(k)

\* A deployed file with a second section has been synced into a filled-in
\* skeleton whose comments come before and after the content.
C15_SectionsWitness ==
    /\ Len(result) >= 1
    /\ StructuralChange(1)
    /\ StoredBefore(1).val.content # <<>>
    /\ RewrittenWithContentOf(1)
    /\ contains(store[SyncedStem(1)].text, DescriptionComment)
    /\ contains(store[SyncedStem(1)].text, ReferencesLine)
    /\ contains(store[SyncedStem(1)].text, AddedSection.value)

\* C16: with dry_run set a sync pass writes nothing: the rules directory
\* holds the same files with the same text after every handled file, for the
\* files reported Updated and for the files reported Created.
C16_DryRunWritesNothing == call.dry_run => store = call.stored

\* A dry run has reported one file as updated and another as created.
C16_Witness ==
    /\ call.dry_run
    /\ Len(result) = 2
    /\ SyncedAs(1, "Updated")
    /\ SyncedAs(2, "Created")
    /\ store = call.stored

(***************************************************************************)
(* Import of a text that no export produced: a text is drawn, and the      *)
(* converter of a tool reads it.                                           *)
(***************************************************************************)
\* Texts without a frontmatter delimiter, a heading or an underline.
FreeTexts ==
    { <<>>, <<" ">>, <<"\n">>, <<" ", "\n", "\t", "\n">>, <<"p", "l", "a", "i", "n", " ", "w", "o", "r", "d", "s">>, <<"t", "w", "o", "\n", "l", "i", "n", "e", "s", "\n">>,
      <<"u", "s", "e", " ", "t", "a", "b", "s", "\t", "n", "o", "t", " ", "s", "p", "a", "c", "e", "s">>, <<"*", " ", "o", "n", "e", "\n", "*", " ", "t", "w", "o">>, <<"k", "e", "y", ":", " ", "v", "a", "l", "u", "e">>, <<"a", " ", "=", " ", "b", "\n", "\n", "c">>,
      <<"<", "b", ">", "b", "o", "l", "d", "<", "/", "b", ">">>, <<" ", " ", "i", "n", "d", "e", "n", "t", "e", "d", "\n", " ", " ", " ", " ", "m", "o", "r", "e">> }

\* What stands between the opening line and the closing one.
FrontmatterBlocks ==
    { <<"d", "e", "s", "c", "r", "i", "p", "t", "i", "o", "n", ":", " ", "T", "e", "s", "t", "\n">>,
      <<"d", "e", "s", "c", "r", "i", "p", "t", "i", "o", "n", ":", " ", "T", "e", "s", "t", "\n", "i", "n", "v", "a", "l", "i", "d", "_", "y", "a", "m", "l", ":", " ", "[", "u", "n", "c", "l", "o", "s", "e", "d", " ", "a", "r", "r", "a", "y", "\n">>,
      <<"d", "e", "s", "c", "r", "i", "p", "t", "i", "o", "n", ":", " ", "T", "e", "s", "t", " ", "R", "u", "l", "e", "\n", "i", "n", "v", "a", "l", "i", "d", " ", "y", "a", "m", "l", ":", " ", "[", "\n">>,
      <<"g", "l", "o", "b", "s", ":", " ", "{", "\n">>,
      <<"d", "e", "s", "c", "r", "i", "p", "t", "i", "o", "n", ":", " ", "\"", "a", "\"", " ", "b", "\n">>,
      <<"a", "l", "w", "a", "y", "s", "A", "p", "p", "l", "y", ":", " ", "t", "r", "u", "e", "\n">>,
      <<>> }

\* Lines after the block: none, the closing line, the closing line among
\* spaces, and lines that only start like it.
ClosingLines == { <<>>, <<"-", "-", "-", "\n">>, <<" ", "-", "-", "-", " ", "\n">>, <<"-", "-", "-", "-", "\n">>, <<"-", "-", "-", " ", "#", "\n">> }

BodyTexts == { <<>>, <<"#", " ", "T", "e", "s", "t", "\n">>, <<"t", "e", "x", "t">> }

FrontmatterTexts ==
    { FrontmatterDelimiter \o <<"\n">> \o block \o closing \o body :
        block \in FrontmatterBlocks, closing \in ClosingLines, body \in BodyTexts }

ImportTexts == FreeTexts \cup FrontmatterTexts

InitImport ==
    /\ pc = "exported"
    /\ call \in [op : {"import"}, tool : Tools, now : ImportTimes]
    /\ text \in ImportTexts
    /\ result = None
    /\ store = EmptyStore

NextImport == CursorImport \/ ClineImport \/ ClaudeCodeImport \/ GooseImport

SpecImport == InitImport /\ [][NextImport]_vars

Imported == call.op = "import" /\ pc = "imported"

\* Every text of the pool is read by the model of serde_yaml.
ImportModelled == Imported => (result.ok \/ result.err # "unmodelled")

OpensFrontmatter == starts_with(text, FrontmatterDelimiter)

\* The lines after the first that read "---": as they stand, and with the
\* whitespace around them removed.
ExactClosingLines == {i \in 2..Len(lines(text)) : lines(text)[i] = FrontmatterDelimiter}

TrimmedClosingLines == {i \in 2..Len(lines(text)) : trim(lines(text)[i]) = FrontmatterDelimiter}

FirstOf(S) == CHOOSE i \in S : \A j \in S : i <= j

\* The block between the opening line and closing line i does not parse.
InvalidBlock(i) == ~serde_yaml_from_str(join(SubSeq(lines(text), 2, i - 1), <<"\n">>)).ok

\* C17 as stated: the Cursor import of a text that opens a frontmatter
\* is an error when no later line is "---" and nothing else, and when the
\* block up to the first such line is not valid YAML.
C17_UnclosedOrInvalidIsError ==
    (Imported /\ call.tool = "cursor" /\ OpensFrontmatter) =>
        /\ ExactClosingLines = {} => ~result.ok
        /\ (ExactClosingLines # {} /\ InvalidBlock(FirstOf(ExactClosingLines))) => ~result.ok

\* C17 as the code has it: the closing line is the first later line that
\* reads "---" once the whitespace around it is removed.  The import is an
\* error, and gives no rule, when there is no such line and when the block
\* before it is not valid YAML.
C17_UnclosedOrInvalidIsErrorTrimmed ==
    (Imported /\ call.tool = "cursor" /\ OpensFrontmatter) =>
        /\ TrimmedClosingLines = {} => ~result.ok
        /\ (TrimmedClosingLines # {} /\ InvalidBlock(FirstOf(TrimmedClosingLines))) => ~result.ok

\* A closed frontmatter that is not valid YAML has been refused.
C17_Witness ==
    /\ Imported
    /\ call.tool = "cursor"
    /\ OpensFrontmatter
    /\ TrimmedClosingLines # {}
    /\ InvalidBlock(FirstOf(TrimmedClosingLines))
    /\ ~result.ok

\* A frontmatter that is never closed has been refused.
C17_UnclosedWitness ==
    /\ Imported
    /\ call.tool = "cursor"
    /\ OpensFrontmatter
    /\ TrimmedClosingLines = {}
    /\ ~result.ok

\* A line that is a heading, or that holds hyphens alone or equals signs
\* alone (a frontmatter delimiter or an underline).
IsMarkerLine(line) ==
    \/ starts_with(trim(line), Hash)
    \/ /\ trim(line) # <<>>
       /\ \/ \A i \in 1..Len(trim(line)) : trim(line)[i] = "-"
          \/ \A i \in 1..Len(trim(line)) : trim(line)[i] = "="

MarkerFree(t) == \A i \in 1..Len(lines(t)) : ~IsMarkerLine(lines(t)[i])

\* C18: the import of a text without dialect markers (no frontmatter
\* delimiter, no heading, no underline) gives a rule and no error, with each
\* of the four converters, for empty and blank texts too; the rule read from
\* the empty text is named "Imported Rule" and has at most one section.
C18_UnmarkedTextImports ==
    (Imported /\ MarkerFree(text)) =>
        /\ result.ok
        /\ text = <<>> =>
              /\ result.val.metadata.name = ImportedRuleName
              /\ Len(result.val.content) <= 1

\* The empty text has been imported by the Cursor converter.
C18_Witness ==
    /\ Imported
    /\ call.tool = "cursor"
    /\ text = <<>>
    /\ result.ok
    /\ result.val.metadata.name = ImportedRuleName

\* A text of words alone has been imported by the Goose converter.
C18_WordsWitness ==
    /\ Imported
    /\ call.tool = "goose"
    /\ MarkerFree(text)
    /\ trim(text) # <<>>
    /\ result.ok
    /\ Len(result.val.content) = 1

(***************************************************************************)
(* The apply modes of Cursor: a rule with a Cursor override and conditions *)
(* is exported to a .mdc text, and the text is imported.                   *)
(***************************************************************************)
ApplyModes == {"always", "intelligent", "specific_files", "manual"}

Glob2 == <<"s", "r", "c", "/", "*", "*", "/", "*", ".", "r", "s">>

ModeOverrides ==
    {NoOverrides, [cursor |-> [auto_apply |-> JBool(TRUE)]], [cursor |-> [auto_apply |-> JBool(FALSE)]]}
    \cup {[cursor |-> [apply_mode |-> JString(mode)]] : mode \in ApplyModes}

ModeConditions ==
    { <<>>, <<FilePattern(Glob1)>>, <<Regex(<<"T", "O", "D", "O">>)>>,
      <<FilePattern(Glob1), Regex(<<"T", "O", "D", "O">>), FilePattern(Glob2)>> }

QuotingDescription == <<"U", "s", "e", " ", "\"", "s", "t", "r", "i", "c", "t", "\"", " ", "m", "o", "d", "e">>

ModeDescriptions == {None, Some(<<"D", "e", "s", "c">>), Some(QuotingDescription)}

ModeRules ==
    { UniversalRule(SyncStem, DefaultVersion, StoredName, description, <<>>, DefaultPriority,
                    <<SyncSection>>, <<>>, conditions, tool_overrides) :
        description \in ModeDescriptions, conditions \in ModeConditions, tool_overrides \in ModeOverrides }

InitModes ==
    /\ pc = "stored"
    /\ call \in [op : {"apply_mode"}, tool : {"cursor"}, rule : ModeRules, now : ImportTimes]
    /\ text = <<>>
    /\ result = None
    /\ store = EmptyStore

NextModes == CursorExport \/ CursorImport

SpecModes == InitModes /\ [][NextModes]_vars

ModeExported == call.op = "apply_mode" /\ pc \in {"exported", "imported"}

ModeImported == call.op = "apply_mode" /\ pc = "imported"

ModesModelled == ModeImported => (result.ok \/ result.err # "unmodelled")

\* The lines of the exported text that hold the globs key.
GlobsKeyLines == {i \in 1..Len(lines(text)) : starts_with(lines(text)[i], GlobsKey \o <<":">>)}

GlobItemPrefix == <<" ", " ", "-", " ", "\"">>

\* The entries under the globs key at line k: the run of item lines after
\* it, each without the item prefix and the closing quote.
RECURSIVE glob_entries_from(_, _)
glob_entries_from(ls, i) ==
    IF i <= Len(ls) /\ starts_with(ls[i], GlobItemPrefix)
    THEN <<SubSeq(ls[i], Len(GlobItemPrefix) + 1, Len(ls[i]) - 1)>> \o glob_entries_from(ls, i + 1)
    ELSE <<>>

GlobEntries == IF GlobsKeyLines = {} THEN <<>> ELSE glob_entries_from(lines(text), FirstOf(GlobsKeyLines) + 1)

RECURSIVE file_patterns(_)
file_patterns(conditions) ==
    IF conditions = <<>> THEN <<>>
    ELSE (IF Head(conditions).type = "file_pattern" THEN <<Head(conditions).value>> ELSE <<>>)
         \o file_patterns(Tail(conditions))

\* C19: the Cursor export holds a globs key only when the resolved apply
\* mode is "specific_files", and then the entries under it are the values of
\* the FilePattern conditions, in order, with no entry for a Regex
\* condition; for "always", "intelligent" and "manual" it holds no globs
\* key, whatever conditions the rule has.
C19_GlobsOnlyForSpecificFiles ==
    ModeExported =>
        /\ cursor_apply_mode(call.rule) # "specific_files" => GlobsKeyLines = {}
        /\ cursor_apply_mode(call.rule) = "specific_files" =>
              /\ Cardinality(GlobsKeyLines) <= 1
              /\ GlobEntries = file_patterns(call.rule.conditions)

\* A rule with two FilePattern conditions and a Regex condition between
\* them has been exported in the mode "specific_files".
C19_Witness ==
    /\ ModeExported
    /\ cursor_apply_mode(call.rule) = "specific_files"
    /\ Len(call.rule.conditions) = 3
    /\ GlobsKeyLines # {}
    /\ GlobEntries = <<Glob1, Glob2>>

\* A rule with conditions has been exported in the mode "manual".
C19_ManualWitness ==
    /\ ModeExported
    /\ cursor_apply_mode(call.rule) = "manual"
    /\ call.rule.conditions # <<>>
    /\ GlobsKeyLines = {}

ExplicitMode == "cursor" \in DOMAIN call.rule.tool_overrides
                /\ "apply_mode" \in DOMAIN call.rule.tool_overrides["cursor"]

HasFilePattern == file_patterns(call.rule.conditions) # <<>>

RecordedMode(mode) ==
    /\ result.ok
    /\ "cursor" \in DOMAIN result.val.tool_overrides
    /\ result.val.tool_overrides["cursor"]["apply_mode"] = JString(mode)

ModeKept ==
    /\ (cursor_apply_mode(call.rule) \in {"always", "intelligent"}) => RecordedMode(cursor_apply_mode(call.rule))
    /\ (cursor_apply_mode(call.rule) = "specific_files" /\ HasFilePattern) => RecordedMode("specific_files")
    /\ cursor_apply_mode(call.rule) = "manual" => RecordedMode("intelligent")

\* C20: for a rule whose Cursor override names the apply mode "always",
\* "intelligent", or "specific_files" with at least one FilePattern
\* condition, the Cursor import of its Cursor export records that mode in
\* tool_overrides.cursor.apply_mode; a rule with the mode "manual" comes back
\* as "intelligent".
C20_ApplyModeRoundTrip == (ModeImported /\ ExplicitMode) => ModeKept

\* The same, for the rules whose description holds no double quote.
C20_HoldsWithoutQuotes ==
    (ModeImported /\ ExplicitMode /\ call.rule.metadata.description # Some(QuotingDescription)) => ModeKept

\* A rule in the mode "specific_files" has come back in that mode.
C20_PlainWitness ==
    /\ ModeImported
    /\ ExplicitMode
    /\ cursor_apply_mode(call.rule) = "specific_files"
    /\ HasFilePattern
    /\ RecordedMode("specific_files")

(***************************************************************************)
(* src/cli/commands/deploy.rs: run                                         *)
(*                                                                         *)
(* The terminal and the file system are inputs of a run: what is typed at  *)
(* each prompt and whether each write succeeds are drawn with the call.    *)
(***************************************************************************)
\* The order of the characters of rule ids in str::cmp.
IdCharOrder == <<"-">> \o DigitSeq \o LowerSeq

char_rank(c) == CHOOSE i \in 1..Len(IdCharOrder) : IdCharOrder[i] = c

\* a < b for strings of id characters.
RECURSIVE str_less(_, _)
str_less(a, b) ==
    IF b = <<>> THEN FALSE
    ELSE IF a = <<>> THEN TRUE
    ELSE IF Head(a) = Head(b) THEN str_less(Tail(a), Tail(b))
    ELSE char_rank(Head(a)) < char_rank(Head(b))

\* rules.sort()
RECURSIVE sorted_strings(_)
sorted_strings(S) ==
    IF S = {} THEN <<>>
    ELSE LET least == CHOOSE a \in S : \A b \in S \ {a} : str_less(a, b)
         IN  <<least>> \o sorted_strings(S \ {least})

\* FileStore::list_rules: the ids of the files of the rules directory.
list_rules(files) == sorted_strings(DOMAIN files)

\* get_converter(tool_name) is Ok.
supported_tool(tool_name) == tool_name \in Tools

RECURSIVE trim_all(_)
trim_all(parts) == IF parts = <<>> THEN <<>> ELSE <<trim(Head(parts))>> \o trim_all(Tail(parts))

\* The names of --rule: split at commas, trimmed, the empty ones dropped.
parse_rule_spec(rule_spec) == SelectSeq(trim_all(split(rule_spec, ",")), NonEmpty)

\* The first name of the list that does not load as a rule, as the error
\* run returns for it; Ok when every name loads.
RECURSIVE validate_rules_exist(_, _)
validate_rules_exist(files, names) ==
    IF names = <<>> THEN Ok(<<>>)
    ELSE IF ~load_rule(files, Head(names)).ok THEN load_rule(files, Head(names))
    ELSE IF ~load_rule(files, Head(names)).val.some THEN Err("Rule not found")
    ELSE validate_rules_exist(files, Tail(names))

\* The rules to deploy: the listed ones with --all, else the names of --rule.
rule_names_to_deploy(files, rule, all) ==
    IF all THEN Ok(list_rules(files))
    ELSE IF ~rule.some THEN Err("Must specify either --rule or --all")
    ELSE IF parse_rule_spec(rule.val) = <<>> THEN Err("No valid rule names provided")
    ELSE IF ~validate_rules_exist(files, parse_rule_spec(rule.val)).ok
    THEN validate_rules_exist(files, parse_rule_spec(rule.val))
    ELSE Ok(parse_rule_spec(rule.val))

\* The rules of the names, or the error of the first that does not load.
RECURSIVE load_rules_to_merge(_, _)
load_rules_to_merge(files, names) ==
    IF names = <<>> THEN Ok(<<>>)
    ELSE IF ~load_rule(files, Head(names)).ok THEN load_rule(files, Head(names))
    ELSE IF ~load_rule(files, Head(names)).val.some THEN Err("Rule not found")
    ELSE IF ~load_rules_to_merge(files, Tail(names)).ok THEN load_rules_to_merge(files, Tail(names))
    ELSE Ok(<<load_rule(files, Head(names)).val.val>> \o load_rules_to_merge(files, Tail(names)).val)

\* prompt_for_merged_rule_id: input is the line typed at the prompt.
prompt_for_merged_rule_id(input) ==
    IF trim(input) = <<>> THEN Err("Merged rule ID cannot be empty")
    ELSE IF ~sanitize_rule_id(trim(input)).ok THEN Err("Invalid rule ID")
    ELSE sanitize_rule_id(trim(input))

\* The answer to "Overwrite? [y/N]" is a yes.
confirms_overwrite(input) == to_lowercase(trim(input)) \in {<<"y">>, <<"y", "e", "s">>}

\* The end of deploy_rule and deploy_merged_rule: the converted rule is
\* written under output_path when the file system lets it.
write_deployed(tool, stem, rule, writable) ==
    IF writable THEN Ok(DeployedFile(deployed_path(tool, stem), convert_to_tool_format(tool, rule)))
    ELSE Err("Failed to write file")

deploy_rule(files, tool, rule_name, writable) ==
    IF ~load_rule(files, rule_name).ok THEN load_rule(files, rule_name)
    ELSE IF ~load_rule(files, rule_name).val.some THEN Err("Rule not found")
    ELSE write_deployed(tool, rule_name, load_rule(files, rule_name).val.val, writable)

deploy_merged_rule(merged_rule, tool, writable) ==
    write_deployed(tool, merged_rule.id, merged_rule, writable)

\* What one pass of the loop over the tools comes to: a file deployed, a
\* failure collected, a merge the user cancelled, or an error that leaves run.
ToolOutcome(kind, error, deployed) == [kind |-> kind, error |-> error, deployed |-> deployed]

ToolAborted(error) == ToolOutcome("aborted", Some(error.err), None)

deployed_or_failed(written) ==
    IF written.ok THEN ToolOutcome("deployed", None, Some(written.val))
    ELSE ToolOutcome("failed", Some(written.err), None)

\* The merge branch from the conflict check on.
deploy_merged_as(files, tool, rules_to_merge, merged_rule_id, env) ==
    IF ~load_rule(files, merged_rule_id).ok THEN ToolAborted(load_rule(files, merged_rule_id))
    ELSE IF load_rule(files, merged_rule_id).val.some /\ ~confirms_overwrite(env.overwrite)
    THEN ToolOutcome("cancelled", None, None)
    ELSE IF ~merge_rules(rules_to_merge, merged_rule_id).ok
    THEN ToolAborted(merge_rules(rules_to_merge, merged_rule_id))
    ELSE deployed_or_failed(deploy_merged_rule(merge_rules(rules_to_merge, merged_rule_id).val,
                                               tool, env.writable))

\* The body of the loop over the tools.
deploy_to_tool(files, tool, rule_names, env) ==
    IF Len(rule_names) > 1
    THEN IF ~load_rules_to_merge(files, rule_names).ok
         THEN ToolAborted(load_rules_to_merge(files, rule_names))
         ELSE IF ~prompt_for_merged_rule_id(env.merged_id).ok
         THEN ToolAborted(prompt_for_merged_rule_id(env.merged_id))
         ELSE deploy_merged_as(files, tool, load_rules_to_merge(files, rule_names).val,
                               prompt_for_merged_rule_id(env.merged_id).val, env)
    ELSE deployed_or_failed(deploy_rule(files, tool, rule_names[1], env.writable))

(***************************************************************************)
(* A deploy run as a state machine: the checks before the loop, one step   *)
(* per tool, and the report after the loop.                                *)
(***************************************************************************)
MergedId == <<"m", "e", "r", "g", "e", "d">>

BrokenId == <<"b", "a", "d">>

BrokenFile == StoredFile(<<":">>, Err("Failed to parse URF file"))

DeployRule(id, priority) ==
    UniversalRule(id, StoredVersion, StoredName, Some(OldDescription), <<Tag1>>, priority,
                  <<SyncSection>>, <<>>, <<>>, NoOverrides)

DeployStores ==
    LET api == written_file(DeployRule(SyncStem, DefaultPriority))
        new == written_file(DeployRule(SecondStem, StoredPriority))
        merged == written_file(DeployRule(MergedId, DefaultPriority))
    IN  { EmptyStore,
          [id \in {SyncStem} |-> api],
          [id \in {SyncStem, SecondStem} |-> IF id = SyncStem THEN api ELSE new],
          [id \in {SyncStem, BrokenId} |-> IF id = SyncStem THEN api ELSE BrokenFile],
          [id \in {SyncStem, SecondStem, MergedId} |->
              IF id = SyncStem THEN api ELSE IF id = SecondStem THEN new ELSE merged] }

\* --rule as typed; without it the run has --all or neither.
RuleSpecs == {None, Some(<<"a", "p", "i">>), Some(<<"a", "p", "i", ",", " ", "n", "e", "w">>), Some(<<"a", "p", "i", ",", "n", "o", "p", "e">>), Some(<<" ", ",", " ">>),
              Some(<<"a", "p", "i", ",", "b", "a", "d">>)}

ToolLists == { <<"cursor">>, <<"cline", "goose">>, <<"cursor", "claude-code", "goose">>,
               <<"cursor", "vim">> }

\* What the user types at the prompts of one pass and whether its write
\* succeeds.
DeployEnv(merged_id, overwrite, writable) ==
    [merged_id |-> merged_id, overwrite |-> overwrite, writable |-> writable]

DeployEnvs ==
    { DeployEnv(<<"m", "e", "r", "g", "e", "d">>, <<"y">>, TRUE),
      DeployEnv(<<"m", "e", "r", "g", "e", "d">>, <<"n">>, TRUE),
      DeployEnv(<<"m", "e", "r", "g", "e", "d">>, <<"Y", "e", "s">>, FALSE),
      DeployEnv(<<>>, <<"y">>, TRUE),
      DeployEnv(<<"!">>, <<"y">>, TRUE) }

DeployCalls ==
    UNION { { [op |-> "deploy", tools |-> tools, rule |-> rule, all |-> all, envs |-> envs, stored |-> stored] :
                rule \in RuleSpecs, all \in BOOLEAN,
                envs \in [1..Len(tools) -> DeployEnvs], stored \in DeployStores } :
            tools \in ToolLists }

DeployState(rule_names, outcomes, deployment_errors, status) ==
    [rule_names |-> rule_names, outcomes |-> outcomes,
     deployment_errors |-> deployment_errors, status |-> status]

InitDeploy ==
    /\ call \in {c \in DeployCalls : c.all => c.rule = None}
    /\ pc = 0
    /\ text = <<>>
    /\ result = DeployState(<<>>, <<>>, <<>>, None)
    /\ store = call.stored

\* The position of a run that has returned.
DeployReturned == Len(call.tools) + 2

\* The error of a run: its message and the failures it lists.
DeployError(message, errors) == Err([message |-> message, errors |-> errors])

DeployReturns(rule_names, outcomes, deployment_errors, status) ==
    /\ pc' = DeployReturned
    /\ result' = DeployState(rule_names, outcomes, deployment_errors, Some(status))
    /\ UNCHANGED <<call, text, store>>

\* run up to the loop: the tools are validated, the rules are chosen.
StartDeployWith(names) ==
    IF \E i \in 1..Len(call.tools) : ~supported_tool(call.tools[i])
    THEN DeployReturns(<<>>, <<>>, <<>>, DeployError("Unsupported tool", <<>>))
    ELSE IF ~names.ok THEN DeployReturns(<<>>, <<>>, <<>>, DeployError(names.err, <<>>))
    ELSE IF names.val = <<>> THEN DeployReturns(<<>>, <<>>, <<>>, Ok("No rules found to deploy"))
    ELSE /\ pc' = 1
         /\ result' = DeployState(names.val, <<>>, <<>>, None)
         /\ UNCHANGED <<call, text, store>>

StartDeploy ==
    /\ call.op = "deploy"
    /\ pc = 0
    /\ StartDeployWith(rule_names_to_deploy(store, call.rule, call.all))

DeploymentError(tool, outcome) == [tool |-> tool, error |-> outcome.error.val]

\* One pass of the loop, with its outcome.
DeployStep(tool, outcome) ==
    IF outcome.kind = "aborted"
    THEN DeployReturns(result.rule_names, Append(result.outcomes, outcome),
                       result.deployment_errors, DeployError(outcome.error.val, <<>>))
    ELSE /\ pc' = pc + 1
         /\ result' = DeployState(result.rule_names, Append(result.outcomes, outcome),
                                  IF outcome.kind = "failed"
                                  THEN Append(result.deployment_errors, DeploymentError(tool, outcome))
                                  ELSE result.deployment_errors,
                                  None)
         /\ UNCHANGED <<call, text, store>>

DeployToTool ==
    /\ call.op = "deploy"
    /\ pc \in 1..Len(call.tools)
    /\ DeployStep(call.tools[pc], deploy_to_tool(store, call.tools[pc], result.rule_names, call.envs[pc]))

\* After the loop: the collected failures are one error.
FinishDeploy ==
    /\ call.op = "deploy"
    /\ pc = Len(call.tools) + 1
    /\ DeployReturns(result.rule_names, result.outcomes, result.deployment_errors,
                     IF result.deployment_errors # <<>>
                     THEN DeployError("Deployment failed", result.deployment_errors)
                     ELSE Ok("deployed"))

NextDeploy == StartDeploy \/ DeployToTool \/ FinishDeploy

SpecDeploy == InitDeploy /\ [][NextDeploy]_vars

DeployDone == call.op = "deploy" /\ pc = DeployReturned

DeployOutcomeKinds == {result.outcomes[i].kind : i \in 1..Len(result.outcomes)}

\* The run reached the loop over the tools.
DeployLooped == DeployDone /\ result.rule_names # <<>>

FailedPasses == {i \in 1..Len(result.outcomes) : result.outcomes[i].kind \in {"failed", "aborted"}}

\* The tools whose failure the error of the run tells of: the ones its list
\* names, and the one whose error is the error of the run.
ReportedTools ==
    {result.status.val.err.errors[k].tool : k \in 1..Len(result.status.val.err.errors)}
    \cup {call.tools[i] : i \in {j \in 1..Len(result.outcomes) : result.outcomes[j].kind = "aborted"}}

\* The run returns an error exactly when a pass failed, and the error tells
\* of every pass that failed.
ReportsEveryFailure ==
    /\ result.status.some
    /\ IF FailedPasses = {} THEN result.status.val.ok
       ELSE ~result.status.val.ok /\ ReportedTools = {call.tools[i] : i \in FailedPasses}

\* C21: in a deploy over several tools a failure while deploying to one
\* tool, for a single rule or for a merged rule, does not stop the
\* deployment to the remaining tools: when the run returns, every tool has
\* been attempted and the failures of all passes are reported together in
\* the one error it returns.
C21_ToolFailureDoesNotStopDeploy ==
    DeployLooped => Len(result.outcomes) = Len(call.tools) /\ ReportsEveryFailure

\* C21 over the runs whose failures arise inside deploy_rule and
\* deploy_merged_rule (a rule that does not load, a file that cannot be
\* written): every tool is attempted and every failure is in the report.
C21_HoldsForCollectedFailures ==
    DeployLooped /\ "aborted" \notin DeployOutcomeKinds
        => Len(result.outcomes) = Len(call.tools) /\ ReportsEveryFailure

\* A run over three tools whose first write fails and whose later passes
\* deploy.
C21_CollectedWitness ==
    /\ DeployLooped
    /\ Len(result.outcomes) = 3
    /\ result.outcomes[1].kind = "failed"
    /\ result.outcomes[3].kind = "deployed"
    /\ ~result.status.val.ok

(***************************************************************************)
(* A sync pass over several tools: run of src/cli/commands/sync.rs with    *)
(* its loop over the source tools around the loop over the deployed files. *)
(***************************************************************************)
\* A pass that stops at the first file whose sync fails.
error_ends_pass(outcome) == ~outcome.ok

\* The arm Err(e) of the match in run prints the error; the loop goes on.
file_error_ends_pass(outcome) == FALSE

PassTools == { <<"cursor", "cline">>, <<"cline", "goose">>, <<"goose", "cursor", "cline">>,
               <<"cline", "vim", "goose">>, <<"claude-code", "cline">> }

PassRule == UniversalRule(DeployedId, DefaultVersion, StoredName, Some(NewDescription), <<>>,
                          DefaultPriority, <<SyncSection>>, <<>>, <<>>, NoOverrides)

\* What the deployment path of a tool holds: nothing (None), no file of the
\* tool, or files of which one cannot be imported or reconciled.
PassFileLists(tool) ==
    IF ~supported_tool(tool) THEN {None}
    ELSE LET good == DeployedFile(deployed_path(tool, SyncStem), convert_to_tool_format(tool, PassRule))
             unclosed == DeployedFile(deployed_path(tool, SyncStem), UnclosedFrontmatter)
             second == DeployedFile(deployed_path(tool, SecondStem), convert_to_tool_format(tool, PassRule))
         IN  IF tool = "claude-code" THEN {None, Some(<<good>>)}
             ELSE {None, Some(<<>>), Some(<<good, second>>), Some(<<unclosed, second>>)}

PassStores ==
    { EmptyStore,
      [id \in {SyncStem} |-> written_file(DeployRule(SyncStem, DefaultPriority))],
      [id \in {SyncStem} |-> BrokenFile],
      [id \in {SyncStem, SecondStem} |-> BrokenFile] }

PassCalls ==
    UNION { { [op |-> "sync_pass", dry_run |-> dry_run, rule |-> rule, tools |-> tools,
               deployed |-> deployed, stored |-> stored, now |-> now] :
                dry_run \in BOOLEAN, rule \in {None, Some(SecondStem)},
                deployed \in {d \in [1..Len(tools) -> UNION {PassFileLists(t) : t \in Tools \cup {"vim"}}] :
                                \A i \in 1..Len(tools) : d[i] \in PassFileLists(tools[i])},
                stored \in PassStores, now \in ImportTimes } :
            tools \in PassTools }

PassState(synced, status) == [synced |-> synced, status |-> status]

\* Where the pass stands: at the head of the loop over the tools (file 0),
\* at a deployed file of a tool, or returned (tool 0).
PassAt(tool, file) == [tool |-> tool, file |-> file]

InitPass ==
    /\ call \in PassCalls
    /\ pc = PassAt(1, 0)
    /\ text = <<>>
    /\ result = PassState(<<>>, None)
    /\ store = call.stored

PassReturns(status) ==
    /\ pc' = PassAt(0, 0)
    /\ result' = PassState(result.synced, Some(status))
    /\ UNCHANGED <<call, text, store>>

\* The position after the file-th file of the tool-th tool.
pass_after(tool, file) ==
    IF call.deployed[tool].some /\ file < Len(call.deployed[tool].val)
    THEN PassAt(tool, file + 1)
    ELSE PassAt(tool + 1, 0)

\* The head of the loop over the tools: the converter is looked up, a tool
\* with nothing deployed is passed over, the deployed files are listed.
PassEnterTool ==
    /\ call.op = "sync_pass"
    /\ pc.file = 0
    /\ pc.tool \in 1..Len(call.tools)
    /\ IF ~supported_tool(call.tools[pc.tool])
       THEN PassReturns(Err("Unsupported tool"))
       ELSE /\ pc' = pass_after(pc.tool, 0)
            /\ UNCHANGED <<call, text, result, store>>

PassSynced(tool, file_path, outcome) == [tool |-> tool, path |-> file_path, outcome |-> outcome]

PassStep(tool, file, synced) ==
    IF file_error_ends_pass(synced.result)
    THEN /\ pc' = PassAt(0, 0)
         /\ result' = PassState(Append(result.synced, PassSynced(tool, file.path, synced.result)),
                                Some(Err("sync failed")))
         /\ store' = synced.files
         /\ UNCHANGED <<call, text>>
    ELSE /\ pc' = pass_after(pc.tool, pc.file)
         /\ result' = PassState(Append(result.synced, PassSynced(tool, file.path, synced.result)), None)
         /\ store' = synced.files
         /\ UNCHANGED <<call, text>>

\* One turn of the loop over the deployed files of a tool.
PassSyncFile ==
    /\ call.op = "sync_pass"
    /\ pc.file > 0
    /\ passes_rule_filter(call.rule, call.deployed[pc.tool].val[pc.file].path)
    /\ PassStep(call.tools[pc.tool], call.deployed[pc.tool].val[pc.file],
                sync_rule_from_file(store, call.tools[pc.tool], call.deployed[pc.tool].val[pc.file].path,
                                    call.deployed[pc.tool].val[pc.file].content, call.dry_run, call.now))

PassSkipFile ==
    /\ call.op = "sync_pass"
    /\ pc.file > 0
    /\ ~passes_rule_filter(call.rule, call.deployed[pc.tool].val[pc.file].path)
    /\ pc' = pass_after(pc.tool, pc.file)
    /\ UNCHANGED <<call, text, result, store>>

\* After the loops: Ok(()).
PassReturn ==
    /\ call.op = "sync_pass"
    /\ pc.file = 0
    /\ pc.tool = Len(call.tools) + 1
    /\ PassReturns(Ok("Sync complete"))

NextPass == PassEnterTool \/ PassSyncFile \/ PassSkipFile \/ PassReturn

SpecPass == InitPass /\ [][NextPass]_vars

PassDone == call.op = "sync_pass" /\ pc = PassAt(0, 0)

\* The deployed files the loops come to: for each tool in turn, the files
\* of its deployment path that pass the rule filter.
RECURSIVE files_to_sync(_, _)
files_to_sync(tool, file) ==
    IF tool > Len(call.tools) THEN <<>>
    ELSE IF ~call.deployed[tool].some \/ file > Len(call.deployed[tool].val)
    THEN files_to_sync(tool + 1, 1)
    ELSE (IF passes_rule_filter(call.rule, call.deployed[tool].val[file].path)
          THEN <<[tool |-> call.tools[tool], path |-> call.deployed[tool].val[file].path]>>
          ELSE <<>>) \o files_to_sync(tool, file + 1)

SyncedFiles == [k \in 1..Len(result.synced) |-> [tool |-> result.synced[k].tool, path |-> result.synced[k].path]]

AllToolsSupported == \A i \in 1..Len(call.tools) : supported_tool(call.tools[i])

\* C22: in a sync pass a failure to import or reconcile one deployed file
\* does not abort the pass.  Over the passes whose tools all have a
\* converter: when the pass returns, every deployed file of every tool that
\* passes the rule filter has been handled, in order, whatever the outcome
\* of the files before it, and the pass returns Ok.
C22_FileFailureDoesNotAbortPass ==
    PassDone /\ AllToolsSupported
        => SyncedFiles = files_to_sync(1, 1) /\ result.status = Some(Ok("Sync complete"))

\* A pass in which the sync of a file failed, a later file of the same tool
\* was synced, a file of a later tool was synced, and the pass returned Ok.
C22_Witness ==
    /\ PassDone
    /\ result.status.val.ok
    /\ \E k \in 1..Len(result.synced) :
          /\ ~result.synced[k].outcome.ok
          /\ \E m \in (k + 1)..Len(result.synced) :
                result.synced[m].tool = result.synced[k].tool /\ result.synced[m].outcome.ok
          /\ \E m \in (k + 1)..Len(result.synced) :
                result.synced[m].tool # result.synced[k].tool /\ result.synced[m].outcome.ok

(***************************************************************************)
(* Goose import over texts of underlined and plain lines.                  *)
(***************************************************************************)
MaxGooseLines == 4

GooseExample == <<"T", "i", "t", "l", "e", "\n", "=", "=", "=", "=", "=", "\n", "\n", "D", "e", "s", "c", "\n", "\n", "S", "e", "c", "t", "i", "o", "n", "\n", "-", "-", "-", "-", "-", "-", "-", "\n", "\n", "B", "o", "d", "y">>

GooseLines == { <<>>, <<"T", "i">>, <<"D", "e">>, <<"S", "e">>, <<"B", "o">>, <<"=", "=">>, <<"-", "-">>, <<"=", "-">> }

GooseTexts ==
    {join(ls, <<"\n">>) : ls \in SeqsUpTo(GooseLines, MaxGooseLines) \ {<<>>}}
    \cup {GooseExample}
    \cup {goose_convert_to_tool_format(rule) : rule \in DeployedRules}

InitGoose ==
    /\ call \in [op : {"goose_import"}, tool : {"goose"}, now : ImportTimes]
    /\ pc = "exported"
    /\ text \in GooseTexts
    /\ result = <<>>
    /\ store = EmptyStore

NextGoose == GooseImport

SpecGoose == InitGoose /\ [][NextGoose]_vars

GooseImported == call.op = "goose_import" /\ pc = "imported"

\* The lines of the text as the parser reads them.
goose_lines(content) == [i \in 1..Len(lines(content)) |-> trim(lines(content)[i])]

is_title_underline(l) == is_run_of(l, {"="})

is_section_underline(l) == is_run_of(l, {"-"})

is_underline(l) == is_title_underline(l) \/ is_section_underline(l)

\* The lines followed by a run of '=', and those followed by a run of '-'.
TitleLines(ls) == {i \in 1..(Len(ls) - 1) : is_title_underline(ls[i + 1])}

SectionLines(ls) == {i \in 1..(Len(ls) - 1) : is_section_underline(ls[i + 1])}

\* Every underline lies under a line of words, and at most one line is
\* underlined with '='.
UnderlinesUnderWords(ls) ==
    /\ \A i \in 1..Len(ls) : is_underline(ls[i]) => i > 1 /\ ls[i - 1] # <<>> /\ ~is_underline(ls[i - 1])
    /\ \A i, k \in TitleLines(ls) : i = k

\* The first non-blank line after the underline of the title at line t, or
\* 0 when the text ends before one.
DescriptionCandidate(ls, t) ==
    IF \E j \in (t + 2)..Len(ls) : ls[j] # <<>>
    THEN CHOOSE j \in (t + 2)..Len(ls) : ls[j] # <<>> /\ \A k \in (t + 2)..(j - 1) : ls[k] = <<>>
    ELSE 0

\* The description the claim gives a text with its title at line t.
ExpectedDescription(ls, t) ==
    IF DescriptionCandidate(ls, t) = 0 THEN None
    ELSE IF DescriptionCandidate(ls, t) < Len(ls) /\ is_underline(ls[DescriptionCandidate(ls, t) + 1])
    THEN None
    ELSE Some(ls[DescriptionCandidate(ls, t)])

SectionTitles(rule) == {rule.content[k].title : k \in 1..Len(rule.content)}

\* The section line at i is followed, before the next underlined line, by a
\* line that is not blank and is not the description.
HasBody(ls, i, description) ==
    \E j \in (i + 2)..Len(ls) :
        /\ ls[j] # <<>>
        /\ ~starts_with(ls[j], MarkerOpen)
        /\ \A k \in (i + 2)..j : k \notin TitleLines(ls) \cup SectionLines(ls)
        /\ \A k \in (i + 2)..j : ~is_underline(ls[k])

GooseClassifies(ls, rule) ==
    /\ \A t \in TitleLines(ls) :
          /\ rule.metadata.name = ls[t]
          /\ rule.metadata.description = ExpectedDescription(ls, t)
    /\ SectionTitles(rule) \ {ContentTitle} \subseteq {ls[i] : i \in SectionLines(ls)}
    /\ \A i \in SectionLines(ls) : HasBody(ls, i, rule.metadata.description) => ls[i] \in SectionTitles(rule)
    /\ \A k \in 1..Len(rule.content) :
          rule.content[k].title # ContentTitle =>
              \A m \in 1..Len(lines(rule.content[k].value)) : ~is_underline(lines(rule.content[k].value)[m])

GooseExampleRule(rule) ==
    /\ rule.metadata.name = <<"T", "i", "t", "l", "e">>
    /\ rule.metadata.description = Some(<<"D", "e", "s", "c">>)
    /\ rule.content = <<[title |-> <<"S", "e", "c", "t", "i", "o", "n">>, format |-> "plaintext", value |-> <<"B", "o", "d", "y">>]>>

\* C23: Goose import classifies each line by the line after it.  Over the
\* texts in which every underline lies under a line of words and at most
\* one line is underlined with '=': the line followed by a run of '=' is the
\* name; the titles of the sections, the default section apart, are lines
\* followed by a run of '-', each such line with a body has its section, and
\* no underline is stored in such a section; the first non-blank line after the
\* underline of the title is the description if no run of '=' or of '-'
\* follows it, and else there is no description.  The text of the example
\* yields name Title, description Desc and the one section Section, Body.
C23_GooseClassifiesByNextLine ==
    GooseImported =>
        /\ result.ok
        /\ UnderlinesUnderWords(goose_lines(text)) => GooseClassifies(goose_lines(text), result.val)
        /\ text = GooseExample => GooseExampleRule(result.val)

\* No line mixes '=' and '-' and holds nothing else.
NoMixedRuns(ls) == \A i \in 1..Len(ls) : is_run_of(ls[i], {"=", "-"}) => is_underline(ls[i])

\* C23 over the texts in which no line is a mixed run of '=' and '-'.
C23_HoldsWithoutMixedRuns ==
    GooseImported =>
        /\ result.ok
        /\ UnderlinesUnderWords(goose_lines(text)) /\ NoMixedRuns(goose_lines(text))
              => GooseClassifies(goose_lines(text), result.val)
        /\ text = GooseExample => GooseExampleRule(result.val)

\* The example of the claim has been imported.
C23_ExampleWitness == GooseImported /\ text = GooseExample /\ GooseExampleRule(result.val)

\* The apply mode the claim gives a rule.
ClaimedApplyMode(rule) ==
    IF "cursor" \in DOMAIN rule.tool_overrides
       /\ "apply_mode" \in DOMAIN rule.tool_overrides["cursor"]
       /\ rule.tool_overrides["cursor"]["apply_mode"].t = "string"
    THEN rule.tool_overrides["cursor"]["apply_mode"].v
    ELSE IF "cursor" \in DOMAIN rule.tool_overrides
            /\ "auto_apply" \in DOMAIN rule.tool_overrides["cursor"]
            /\ rule.tool_overrides["cursor"]["auto_apply"] = JBool(TRUE)
    THEN "always"
    ELSE IF file_patterns(rule.conditions) # <<>> THEN "specific_files"
    ELSE "intelligent"

\* The lines of the exported text that hold the alwaysApply key.
AlwaysApplyLines == {i \in 1..Len(lines(text)) : starts_with(lines(text)[i], AlwaysApplyKey \o <<":">>)}

WritesAlwaysApply(value) ==
    /\ Cardinality(AlwaysApplyLines) = 1
    /\ \A i \in AlwaysApplyLines : lines(text)[i] = AlwaysApplyKey \o <<":", " ">> \o value

\* C24: the Cursor export resolves the apply mode as the apply_mode string
\* of the cursor override when present, else "always" when the legacy
\* auto_apply override is true, else "specific_files" when the rule has a
\* FilePattern condition and "intelligent" when it has none; and it writes
\* alwaysApply: true exactly when the resolved mode is "always", and
\* alwaysApply: false otherwise.
C24_ApplyModeResolution ==
    ModeExported =>
        /\ cursor_apply_mode(call.rule) = ClaimedApplyMode(call.rule)
        /\ WritesAlwaysApply(IF ClaimedApplyMode(call.rule) = "always" THEN TrueWord ELSE FalseWord)

\* C24 over the rules that have no condition or have a FilePattern condition.
C24_HoldsWithFilePatternOrNone ==
    ModeExported /\ (call.rule.conditions = <<>> \/ file_patterns(call.rule.conditions) # <<>>) =>
        /\ cursor_apply_mode(call.rule) = ClaimedApplyMode(call.rule)
        /\ WritesAlwaysApply(IF ClaimedApplyMode(call.rule) = "always" THEN TrueWord ELSE FalseWord)

\* A rule with the legacy override auto_apply: true and a FilePattern
\* condition has been exported with alwaysApply: true.
C24_LegacyWitness ==
    /\ ModeExported
    /\ ~ExplicitMode
    /\ ClaimedApplyMode(call.rule) = "always"
    /\ file_patterns(call.rule.conditions) # <<>>
    /\ WritesAlwaysApply(TrueWord)

(***************************************************************************)
(* Cline and Claude Code import over texts of headings, body lines and     *)
(* identity marker comments.                                               *)
(***************************************************************************)
MaxMarkdownLines == 4

MarkerLine == marker_comment(<<"a", "b">>)

MarkdownLines == { <<>>, <<"#", " ", "A">>, <<"#", " ", "B">>, <<"#", "#", " ", "S">>, <<"b", "o", "d", "y">>, MarkerLine }

MarkdownTexts == {join(ls, <<"\n">>) : ls \in SeqsUpTo(MarkdownLines, MaxMarkdownLines) \ {<<>>}}

InitMarkdown ==
    /\ call \in [op : {"markdown_import"}, tool : {"cline", "claude-code"}, now : ImportTimes]
    /\ pc = "exported"
    /\ text \in MarkdownTexts
    /\ result = <<>>
    /\ store = EmptyStore

NextMarkdown == ClineImport \/ ClaudeCodeImport

SpecMarkdown == InitMarkdown /\ [][NextMarkdown]_vars

MarkdownImported == call.op = "markdown_import" /\ pc = "imported"

\* The lines of the text that are top-level headings.
TopHeadings(content) ==
    {i \in 1..Len(lines(content)) : starts_with(trim(lines(content)[i]), <<"#", " ">>)}

heading_text(l) == trim(SubSeq(trim(l), 3, Len(trim(l))))

\* C25: in Cline and Claude Code import the name of the rule is the text of
\* the first line of the file that starts with "# ", whatever lines follow
\* it: a later line that starts with "# " does not change the name.
C25_NameIsFirstTopHeading ==
    MarkdownImported /\ TopHeadings(text) # {} =>
        /\ result.ok
        /\ result.val.metadata.name = heading_text(lines(text)[FirstOf(TopHeadings(text))])

\* C25 over the texts with one line that starts with "# ".
C25_HoldsForOneTopHeading ==
    MarkdownImported /\ Cardinality(TopHeadings(text)) = 1 =>
        /\ result.ok
        /\ result.val.metadata.name = heading_text(lines(text)[FirstOf(TopHeadings(text))])

\* A text with one top-level heading that is not its first line has been
\* imported.
C25_OneHeadingWitness ==
    /\ MarkdownImported
    /\ Cardinality(TopHeadings(text)) = 1
    /\ 1 \notin TopHeadings(text)
    /\ result.val.metadata.name = <<"A">>

\* The line holds an identity marker comment and nothing else.
is_marker_line(l) == starts_with(trim(l), MarkerPrefix) /\ ends_with(trim(l), MarkerSuffix)

\* The text without its marker lines.
RECURSIVE without_marker_lines(_)
without_marker_lines(ls) ==
    IF ls = <<>> THEN <<>>
    ELSE (IF is_marker_line(Head(ls)) THEN <<>> ELSE <<Head(ls)>>) \o without_marker_lines(Tail(ls))

markdown_import(tool, content, now) ==
    IF tool = "cline" THEN cline_convert_from_tool_format(content)
    ELSE claude_code_convert_from_tool_format(content, now)

\* What an import takes from the lines of a text.
ParsedFields(rule) == [name |-> rule.metadata.name, description |-> rule.metadata.description,
                       content |-> rule.content]

MarkerFreeRule(rule) ==
    /\ ~contains(rule.metadata.name, MarkerPrefix)
    /\ rule.metadata.description.some => ~contains(rule.metadata.description.val, MarkerPrefix)
    /\ \A k \in 1..Len(rule.content) :
          ~contains(rule.content[k].title, MarkerPrefix) /\ ~contains(rule.content[k].value, MarkerPrefix)

SkipsMarkerLines(tool, content, now, imported) ==
    /\ imported.ok
    /\ MarkerFreeRule(imported.val)
    /\ ParsedFields(imported.val)
         = ParsedFields(markdown_import(tool, join(without_marker_lines(lines(content)), <<"\n">>), now).val)

HasMarkerLine(content) == \E i \in 1..Len(lines(content)) : is_marker_line(lines(content)[i])

\* C26: in Cline and Claude Code import a line that consists of an identity
\* marker comment is skipped.  The comment appears in no name, description,
\* section title or section body of the imported rule, and the name, the
\* description and the sections are the ones the import takes from the text
\* without its marker lines, so that a marker line creates no section.
C26_MarkerLinesSkipped ==
    MarkdownImported /\ HasMarkerLine(text) => SkipsMarkerLines(call.tool, text, call.now, result)

\* C26 for Claude Code import over the texts in which every marker line
\* comes after a section heading and none is the first line with text after
\* a top-level heading.
C26_HoldsInClaudeSections ==
    MarkdownImported /\ call.tool = "claude-code" /\ HasMarkerLine(text)
      /\ (\A i \in 1..Len(lines(text)) : is_marker_line(lines(text)[i]) =>
              \E k \in 1..(i - 1) : starts_with(lines(text)[k], <<"#", "#", " ">>))
      /\ (\A i \in TopHeadings(text) :
              next_non_blank(lines(text), i) <= Len(lines(text))
                  => ~is_marker_line(lines(text)[next_non_blank(lines(text), i)]))
        => SkipsMarkerLines(call.tool, text, call.now, result)

\* Claude Code import has skipped a marker line inside a section.
C26_SectionWitness ==
    /\ MarkdownImported
    /\ call.tool = "claude-code"
    /\ Len(lines(text)) = 3
    /\ starts_with(lines(text)[1], <<"#", "#", " ">>)
    /\ is_marker_line(lines(text)[2])
    /\ result.val.content = <<Section(<<"S">>, <<"b", "o", "d", "y">>)>>

(***************************************************************************)
(* Export and import of rules whose section holds a fenced code block.     *)
(* The fence is written ~~~ in the model.                                  *)
(***************************************************************************)
FencedValues ==
    { <<"~", "~", "~", "\n", "x", " ", "=", " ", "1", "\n", "~", "~", "~">>,
      <<"R", "u", "n", ":", "\n", "~", "~", "~", "\n", "d", "e", "f", " ", "f", "(", ")", ":", "\n", " ", " ", " ", " ", "r", "e", "t", "u", "r", "n", " ", "1", "\n", "~", "~", "~">>,
      <<"~", "~", "~", "\n", "#", " ", "b", "u", "i", "l", "d", "\n", "m", "a", "k", "e", "\n", "~", "~", "~">>,
      <<"R", "u", "n", ":", "\n", "\n", "~", "~", "~", "\n", "l", "s", "\n", "~", "~", "~", "\n", "d", "o", "n", "e">> }

FenceRules ==
    { UniversalRule(SyncStem, DefaultVersion, StoredName, description, <<>>, DefaultPriority,
                    <<Section(<<"U", "s", "e">>, value)>> \o more, <<>>, <<>>, NoOverrides) :
        description \in {None, Some(OldDescription)}, value \in FencedValues,
        more \in {<<>>, <<SyncSection>>} }

InitFence ==
    /\ pc = "stored"
    /\ call \in [op : {"fence"}, tool : Tools, rule : FenceRules, now : ImportTimes]
    /\ text = <<>>
    /\ result = None
    /\ store = EmptyStore

NextFence == NextConv

SpecFence == InitFence /\ [][NextFence]_vars

FenceImported == call.op = "fence" /\ pc = "imported"

SectionValues(content) == [k \in 1..Len(content) |-> content[k].value]

\* C27: for each converter, a section value that holds a fenced code block
\* passes through export and import unmodified, line for line, with the
\* indentation and the first characters of the lines inside the block: the
\* values of the sections of the imported rule are those of the exported
\* rule.
C27_FencedBlockRoundTrip ==
    FenceImported => result.ok /\ SectionValues(result.val.content) = SectionValues(call.rule.content)

\* No line of the value starts with white space, '#' or '@'.
FlushLines(value) ==
    \A i \in 1..Len(lines(value)) :
        lines(value)[i] = <<>> \/ (~is_whitespace(lines(value)[i][1]) /\ lines(value)[i][1] \notin {"#", "@"})

\* C27 over the fenced blocks whose lines start neither with white space
\* nor with '#' or '@'.
C27_HoldsForFlushLines ==
    FenceImported /\ FlushLines(call.rule.content[1].value)
        => result.ok /\ SectionValues(result.val.content) = SectionValues(call.rule.content)

\* A fenced block with a blank line before it has come back unmodified
\* from Goose.
C27_FlushWitness ==
    /\ FenceImported
    /\ call.tool = "goose"
    /\ Len(lines(call.rule.content[1].value)) = 6
    /\ Len(call.rule.content) = 2
    /\ SectionValues(result.val.content) = SectionValues(call.rule.content)

(***************************************************************************)
(* Deploy, then sync: deploy_rule writes the file of a stored rule for a   *)
(* tool, and a sync pass of that tool finds the file as it was written.    *)
(***************************************************************************)
DeploySyncStores ==
    {[id \in {SyncStem} |-> file] : file \in StoredFiles(SyncStem)}
    \cup {[id \in {SyncStem} |-> written_file(DeployRule(SyncStem, DefaultPriority))],
          [id \in {SyncStem, SecondStem} |->
              IF id = SyncStem THEN written_file(DeployRule(SyncStem, DefaultPriority))
              ELSE written_file(DeployRule(SecondStem, StoredPriority))]}

DeploySyncCalls ==
    { [op |-> "deploy_sync", tool |-> tool, rule_id |-> rule_id, dry_run |-> dry_run,
       stored |-> stored, now |-> now] :
        tool \in Tools, rule_id \in {SyncStem, SecondStem}, dry_run \in BOOLEAN,
        stored \in DeploySyncStores, now \in ImportTimes }

InitDeploySync ==
    /\ call \in {c \in DeploySyncCalls : c.rule_id \in DOMAIN c.stored}
    /\ pc = "stored"
    /\ text = <<>>
    /\ result = None
    /\ store = call.stored

\* rulesify deploy --tool <tool> --rule <rule_id>
DeployStored ==
    /\ call.op = "deploy_sync"
    /\ pc = "stored"
    /\ pc' = "deployed"
    /\ result' = deploy_rule(store, call.tool, call.rule_id, TRUE)
    /\ UNCHANGED <<call, text, store>>

SyncDeployedStep(file, synced) ==
    /\ pc' = "synced"
    /\ result' = Synced(file.path, synced.result)
    /\ store' = synced.files
    /\ UNCHANGED <<call, text>>

\* rulesify sync --tool <tool>, over the one file the deploy wrote.
SyncDeployed ==
    /\ call.op = "deploy_sync"
    /\ pc = "deployed"
    /\ result.ok
    /\ SyncDeployedStep(result.val,
                        sync_rule_from_file(store, call.tool, result.val.path, result.val.content,
                                            call.dry_run, call.now))

NextDeploySync == DeployStored \/ SyncDeployed

SpecDeploySync == InitDeploySync /\ [][NextDeploySync]_vars

DeploySynced == call.op = "deploy_sync" /\ pc = "synced"

\* C28: deploy followed by sync with no edit in between is a no-op.  For
\* every stored rule and each tool, the sync of the file the deploy wrote
\* reports NoChange for the id of the rule, creates no rule, and leaves the
\* rules directory as it was before the deploy.
C28_DeployThenSyncIsNoOp ==
    DeploySynced =>
        /\ result.outcome = SyncOutcome("NoChange", call.rule_id, store).result
        /\ store = call.stored

\* The stored rule the deploy exports.
DeployedStoredRule == load_rule(call.stored, call.rule_id).val.val

\* C28 for Cursor, and for Cline over the stored rules that have a
\* description and a section.
C28_HoldsForCursorAndDescribedCline ==
    DeploySynced
      /\ (\/ call.tool = "cursor"
          \/ /\ call.tool = "cline"
             /\ DeployedStoredRule.metadata.description.some
             /\ DeployedStoredRule.content # <<>>)
        => /\ result.outcome = SyncOutcome("NoChange", call.rule_id, store).result
           /\ store = call.stored

\* A rule of a skeleton file has been deployed to Cline and synced back
\* with no change.
C28_ClineWitness ==
    /\ DeploySynced
    /\ call.tool = "cline"
    /\ ~call.dry_run
    /\ call.stored[call.rule_id] = skeleton_file(stored_rule(call.rule_id, Some(OldDescription), <<SyncSection>>, NoOverrides), DescriptionComment)
    /\ result.outcome = SyncOutcome("NoChange", call.rule_id, store).result


(***************************************************************************)
(* Two sync commands in a row over one deployed file that is not edited    *)
(* in between (src/cli/commands/sync.rs, run and sync_rule_from_file).     *)
(***************************************************************************)
ConvergeCalls ==
    UNION { [op : {"sync_twice"}, dry_run : BOOLEAN, tool : {tool},
             file : {DeployedFile(deployed_path(tool, SyncStem), content) : content \in DeployedTexts(tool)},
             stored : Stores(file_stem(deployed_path(tool, SyncStem)).val),
             now : ImportTimes] : tool \in Tools }

InitConverge ==
    /\ call \in ConvergeCalls
    /\ pc = "deployed"
    /\ text = <<>>
    /\ result = <<>>
    /\ store = call.stored

ConvergeStep(synced, then) ==
    /\ result' = Append(result, Synced(call.file.path, synced.result))
    /\ store' = synced.files
    /\ pc' = then
    /\ UNCHANGED <<call, text>>

\* The first command.
FirstSync ==
    /\ call.op = "sync_twice"
    /\ pc = "deployed"
    /\ ConvergeStep(sync_rule_from_file(store, call.tool, call.file.path, call.file.content,
                                        call.dry_run, call.now), "synced once")

\* The second command, over the same file and the rules directory the first
\* one left.
SecondSync ==
    /\ call.op = "sync_twice"
    /\ pc = "synced once"
    /\ ConvergeStep(sync_rule_from_file(store, call.tool, call.file.path, call.file.content,
                                        call.dry_run, call.now), "synced twice")

NextConverge == FirstSync \/ SecondSync

SpecConverge == InitConverge /\ [][NextConverge]_vars

ConvergeStem == file_stem(call.file.path).val

\* The first command was not a dry run and reported Updated.
FirstReportedUpdated ==
    /\ call.op = "sync_twice"
    /\ pc \in {"synced once", "synced twice"}
    /\ ~call.dry_run
    /\ result[1].outcome.ok
    /\ result[1].outcome.val.kind = "Updated"

StillLoadable == load_rule(store, ConvergeStem).ok /\ load_rule(store, ConvergeStem).val.some

SecondReportsNoChange ==
    pc = "synced twice" => result[2].outcome.ok /\ result[2].outcome.val.kind = "NoChange"

\* C29: after a sync that is not a dry run reports Updated, the stored rule
\* file can still be loaded, and a second sync of the same unchanged
\* deployed file reports NoChange.
C29_SyncConverges == FirstReportedUpdated => StillLoadable /\ SecondReportsNoChange

\* The stored file lists its sections under a line "content:".
HasContentBlock ==
    /\ ConvergeStem \in DOMAIN call.stored
    /\ \E i \in 1..Len(lines(call.stored[ConvergeStem].text)) :
           trim(lines(call.stored[ConvergeStem].text)[i]) = ContentKey \o <<":">>

\* The stored file holds no comment.
HasNoComment == \A i \in 1..Len(call.stored[ConvergeStem].text) : call.stored[ConvergeStem].text[i] # "#"

\* A first sync that rewrote the stored file, and a second one that found
\* nothing to change.
ConvergedOnce ==
    /\ FirstReportedUpdated
    /\ HasContentBlock
    /\ HasNoComment
    /\ pc = "synced twice"
    /\ StillLoadable
    /\ store # call.stored
    /\ result[2].outcome = SyncOutcome("NoChange", ConvergeStem, store).result

(***************************************************************************)
(* src/cli/commands/import.rs: run, for a file that exists.  rule_id is    *)
(* the value of --rule-id, answer the line typed at the overwrite prompt.  *)
(***************************************************************************)
\* The id the imported rule is saved under.
final_rule_id(content, file, rule_id, rule_name, now) ==
    IF rule_id.some THEN Ok(rule_id.val)
    ELSE determine_rule_id_with_fallback(content, Some(file), Some(rule_name), now)

import_as(files, rule, existing_rule, answer) ==
    IF ~existing_rule.ok THEN SyncError(existing_rule, files)
    ELSE IF existing_rule.val.some /\ ~confirms_overwrite(answer)
    THEN SyncOutcome("Cancelled", rule.id, files)
    ELSE IF ~save_rule(files, rule).ok THEN SyncError(save_rule(files, rule), files)
    ELSE SyncOutcome("Imported", rule.id, save_rule(files, rule).val)

import_converted(files, content, file, rule_id, converted, answer, now) ==
    IF ~converted.ok THEN SyncError(converted, files)
    ELSE IF ~final_rule_id(content, file, rule_id, converted.val.metadata.name, now).ok
    THEN SyncError(final_rule_id(content, file, rule_id, converted.val.metadata.name, now), files)
    ELSE import_as(files,
                   override_rule_id(converted.val,
                                    final_rule_id(content, file, rule_id, converted.val.metadata.name, now).val),
                   load_rule(files, final_rule_id(content, file, rule_id, converted.val.metadata.name, now).val),
                   answer)

import_run(files, tool, file, content, rule_id, answer, now) ==
    IF ~supported_tool(tool) THEN SyncError(Err("Unsupported tool"), files)
    ELSE import_converted(files, content, file, rule_id, convert_from_tool_format(tool, content, now),
                          answer, now)

(***************************************************************************)
(* Import and sync commands, one after the other, over one rules           *)
(* directory.                                                              *)
(***************************************************************************)
MaxCommands == 2

\* Files handed to import: one named after a valid id, one not.
ImportPaths == {<<"a", "p", "i", ".", "m", "d">>, <<"M", "y", " ", "N", "o", "t", "e", "s", ".", "m", "d">>}

\* Values of --rule-id: none, a valid id, and two that are not.
RuleIdOverrides == {None, Some(<<"m", "y", "-", "r", "u", "l", "e">>), Some(<<"M", "y", " ", "R", "u", "l", "e">>), Some(<<"x">>)}

Answers == {<<"y">>, <<"n">>}

CommandRule(name) ==
    UniversalRule(DeployedId, DefaultVersion, name, Some(OldDescription), <<>>, DefaultPriority,
                  <<SyncSection>>, <<>>, <<>>, NoOverrides)

\* Texts of tool files: an exported rule, with the marker of its id, and
\* words that no export wrote.
CommandTexts(tool) ==
    {convert_to_tool_format(tool, CommandRule(StoredName)), <<"p", "l", "a", "i", "n", " ", "w", "o", "r", "d", "s">>}

CommandStores ==
    {EmptyStore,
     [id \in {SyncStem} |-> written_file(stored_rule(SyncStem, Some(OldDescription), <<SyncSection>>, NoOverrides))]}

InitCommands ==
    /\ call \in [op : {"commands"}, stored : CommandStores, now : ImportTimes]
    /\ pc = 0
    /\ text = <<>>
    /\ result = <<>>
    /\ store = call.stored

\* What a command leaves: its report and the rules directory.
CommandStep(command, outcome) ==
    /\ result' = [command |-> command, outcome |-> outcome.result]
    /\ store' = outcome.files
    /\ pc' = pc + 1
    /\ UNCHANGED <<call, text>>

\* rulesify import --tool tool file [--rule-id rule_id]
ImportCommand ==
    /\ call.op = "commands"
    /\ pc < MaxCommands
    /\ \E tool \in Tools, file \in ImportPaths, rule_id \in RuleIdOverrides, answer \in Answers :
           \E content \in CommandTexts(tool) :
               CommandStep("import", import_run(store, tool, file, content, rule_id, answer, call.now))

\* rulesify sync --tool tool [--dry-run], with one deployed file of the tool.
SyncCommand ==
    /\ call.op = "commands"
    /\ pc < MaxCommands
    /\ \E tool \in Tools, dry_run \in BOOLEAN :
           \E content \in CommandTexts(tool) :
               CommandStep("sync", sync_rule_from_file(store, tool, deployed_path(tool, SyncStem), content,
                                                       dry_run, call.now))

NextCommands == ImportCommand \/ SyncCommand

SpecCommands == InitCommands /\ [][NextCommands]_vars

\* C30: after any sequence of import and sync commands, every id a rule is
\* stored under is a valid rule id.
C30_SavedIdsAreValid == call.op = "commands" => \A id \in DOMAIN store : is_valid_rule_id(id)
====
